---- MODULE Spec2Model ----
(***************************************************************************)
(* A model of the PDF metadata extraction pipeline of BowersWorld-com:     *)
(* EnhancedPDFExtractor.py, HimalayaGPUExtractor.py and                    *)
(* HimalayaGPUExtractor_Protected.py.                                      *)
(*                                                                         *)
(* Spec / FairSpec : the batch loop (LoadExistingData, ProcessAllPDFs /    *)
(*                   ProcessRemainingPDFs, TimeoutProtected, AppendToCSV)  *)
(*                   over several runs of the process.                     *)
(*                                                                         *)
(* A file name is a sequence of tokens; the token "PDF" stands for the     *)
(* four characters ".pdf", every other token for a piece of text that      *)
(* holds no '.'.  So <<"a","PDF","PDF">> is the file "a.pdf.pdf".          *)
(***************************************************************************)
EXTENDS Naturals, Integers, Sequences, FiniteSets, TLC

\* ------------------------------------------------------------------ bounds
MaxDocs == 2
MaxRuns == 2

Variants == {"Protected", "Enhanced", "GPU"}

\* The file names the input directory is drawn from (all match *.pdf).
FileNames == { <<"a", "PDF">>, <<"b", "PDF">>, <<"a", "PDF", "PDF">> }

VARIABLES
    variant,          \* which of the three extractor scripts runs
    Directory,        \* PDFDirectory.glob("*.pdf"), in listing order
    run,              \* number of process starts so far
    pc,               \* where the main thread is
    ProcessedFiles,   \* self.ProcessedFiles
    UnprocessedFiles, \* ProcessAllPDFs' local list
    FileIndex,        \* enumerate(UnprocessedFiles, 1)
    csv,              \* the lines of the output file, << >> when it does not exist or is empty
    csvExists,        \* os.path.exists(self.OutputFile)
    worker,           \* the TimeoutProtected thread of the current document
    abandoned,        \* documents whose worker thread was left running after a timeout
    ProcessedCount, ErrorCount, TimeoutCount,
    BibliographicHitCount, \* self.BibliographicHitCount['ISBN'] (the other entries are counted alike)
    \* history variables (not program state)
    startLen,         \* number of csv lines when the current run started
    afterComplete,    \* some earlier run ran to completion
    afterCrash,       \* the previous run was terminated mid-way
    timedOutNow,      \* documents that timed out in the current run
    timedOutEarlier,  \* documents that timed out in an earlier run
    raisedNow,        \* documents whose processing raised an error in the current run
    \* ---- ExtractPDFMetadata on one document (SpecExtract)
    xpc,              \* the next step of ExtractPDFMetadata
    Metadata,         \* the Metadata dictionary
    ErrorMessages,    \* the ErrorMessages list (the method each entry names)
    ExtractionMethods,\* the ExtractionMethods list
    AllExtractedText, \* the AllExtractedText list (the length of each text)
    TextQuality,      \* TextQuality / text_quality
    xraised,          \* history: the methods whose library call raised
    produced,         \* history: the text fields some step has left non-empty
    plumberThread,    \* the PDF.metadata keys an ExtractWithPlumber thread left behind has yet to look at
    \* ---- identifier mining on one document (SpecIdent)
    ipc,              \* the identifier mined next
    MatchedTexts,     \* what the patterns of the identifier mined last match in each text
    Extracted,        \* the extracted_* fields of Metadata
    \* ---- start-up and the hardware manager (SpecStartup, SpecOCR)
    hpc,              \* where start-up is
    Probes,           \* the machine: what importing and using each optional package does
    CUDA_Available,   \* GPUCapabilities['CUDA_Available']
    OCREngines,       \* the engines of self.OCREngines that are set
    ActiveEngine,     \* self.ActiveEngine ("None" for None)
    OCRAvailable,     \* EnhancedPDFExtractor.OCRAvailable
    PageLog,          \* history: the pages put through OCR, what each engine did, the text returned
    \* ---- the page loop of the PyMuPDF step under PDFTimeout (SpecPages)
    DocPages,         \* the pages of the document
    PageNum,          \* the pages the loop has finished
    Timers,           \* the threading.Timer of each PDFTimeout block entered
    overBudget        \* history: the pages whose timer fired while they were processed

pipeVars == << variant, Directory, run, pc, ProcessedFiles, UnprocessedFiles, FileIndex,
           csv, csvExists, worker, abandoned, ProcessedCount, ErrorCount, TimeoutCount,
           BibliographicHitCount,
           startLen, afterComplete, afterCrash, timedOutNow, timedOutEarlier, raisedNow >>

xVars == << xpc, Metadata, ErrorMessages, ExtractionMethods, AllExtractedText,
            TextQuality, xraised, produced, plumberThread >>

iVars == << ipc, MatchedTexts, Extracted >>

hVars == << hpc, Probes, CUDA_Available, OCREngines, ActiveEngine, OCRAvailable, PageLog >>

tVars == << DocPages, PageNum, Timers, overBudget >>

\* The statistics ExtractPDFMetadata itself adds to, in the thread it runs in
\* (OCRCount, EnhancedExtractionCount and TotalProcessingTime are raised in the
\* same thread and are not told apart here).
statVars == << BibliographicHitCount >>

vars == << pipeVars, xVars, iVars, hVars, tVars >>

\* What the batch loop's actions leave alone.
nonPipeVars == << xVars, iVars, hVars, tVars >>

\* ----------------------------------------------------------------- helpers
Range(s) == { s[i] : i \in 1..Len(s) }

IsPrefix(s, t) == Len(s) <= Len(t) /\ SubSeq(t, 1, Len(s)) = s

\* Sequences without repetition over S, of length at most n.
RECURSIVE SeqsUpTo(_, _)
SeqsUpTo(S, n) ==
    IF n = 0 THEN { << >> }
    ELSE LET shorter == SeqsUpTo(S, n - 1)
         IN shorter \cup { Append(s, x) : s \in { t \in shorter : Len(t) = n - 1 },
                                          x \in S }

NoRepeat(s) == \A i, j \in 1..Len(s) : i # j => s[i] # s[j]

\* Path.stem: the name without its last suffix.
Stem(name) ==
    IF Len(name) >= 2 /\ name[Len(name)] = "PDF"
    THEN SubSeq(name, 1, Len(name) - 1)
    ELSE name

\* filename.str.replace('.pdf', '', regex=False): every occurrence goes.
LedgerKey(name) == SelectSeq(name, LAMBDA t : t # "PDF")

\* ===================================================================
\* ExtractPDFMetadata: texts, pages, the Metadata dictionary
\* ===================================================================
\* A text is its length and the page it was read from (0: none, or several).
\* A page is the length of its text, whether the text holds the words the
\* classification looks for, and whether reading it raises.
MaxPages == 2

MAX_TEXT_LENGTH_HIMALAYA == 20000
MAX_TEXT_LENGTH_ENHANCED == 15000
MAX_TEXT_LENGTH == IF variant = "Enhanced" THEN MAX_TEXT_LENGTH_ENHANCED
                   ELSE MAX_TEXT_LENGTH_HIMALAYA

\* Scores are kept in units of 1/ScoreScale, so that len(AllText) / 150 and
\* len(AllText) / 100 stay whole numbers.
ScoreScale == 300

Min(a, b) == IF a <= b THEN a ELSE b

EmptyText == [len |-> 0, pg |-> 0]
Text(n, page) == IF n = 0 THEN EmptyText ELSE [len |-> n, pg |-> page]

\* text[:n]
Cut(t, n) == Text(Min(t.len, n), t.pg)

Page(n, c, t, a, ti) ==
    [len |-> n, copyright |-> c, toc |-> t, abstract |-> a, title |-> ti, raises |-> FALSE]
FailingPage == [len |-> 0, copyright |-> FALSE, toc |-> FALSE, abstract |-> FALSE,
                title |-> FALSE, raises |-> TRUE]

PageSamples ==
    { Page(0, FALSE, FALSE, FALSE, FALSE),
      Page(150, TRUE, FALSE, FALSE, FALSE),
      Page(600, FALSE, TRUE, TRUE, FALSE),
      Page(20001, TRUE, TRUE, FALSE, FALSE),
      FailingPage }

RECURSIVE AllSeqs(_, _)
AllSeqs(S, n) ==
    IF n = 0 THEN { << >> }
    ELSE LET shorter == AllSeqs(S, n - 1)
         IN shorter \cup { Append(s, x) : s \in { t \in shorter : Len(t) = n - 1 },
                                          x \in S }

PageSeqs == AllSeqs(PageSamples, MaxPages)

\* The pages as a second reader (PyPDF2, the OCR engine) gives them.
RereadSamples == { p \in PageSamples : ~p.abstract }
RereadSeqs == AllSeqs(RereadSamples, MaxPages)

PageText(pages, i) == Text(pages[i].len, i)

RECURSIVE Sum(_)
Sum(lens) == IF lens = << >> THEN 0 ELSE Head(lens) + Sum(Tail(lens))

\* len(' '.join(lens))
JoinLen(lens) == IF lens = << >> THEN 0 ELSE Sum(lens) + Len(lens) - 1

\* len(' '.join(filter(None, lens)))
FilteredJoinLen(lens) == JoinLen(SelectSeq(lens, LAMBDA n : n > 0))

NewMetadata ==
    [pdf_title |-> "", pdf_author |-> "",
     first_page_text |-> EmptyText, title_page_text |-> EmptyText,
     copyright_page_text |-> EmptyText, table_of_contents |-> EmptyText,
     full_text_sample |-> EmptyText, abstract_text |-> EmptyText,
     tables_content |-> EmptyText,
     found |-> {},
     ocr_used |-> FALSE, enhanced_extraction |-> FALSE,
     extraction_quality_score |-> 0,
     extraction_method |-> << >>, errors |-> << >>]

TextFields == {"first_page_text", "title_page_text", "copyright_page_text",
               "table_of_contents", "full_text_sample", "abstract_text",
               "tables_content"}

\* The identifiers the quality score looks at.
Identifiers == IF variant = "Protected"
               THEN {"isbn", "lccn", "issn", "oclc", "year", "publisher"}
               ELSE {"isbn", "year"}

\* What the identifier patterns found, for the documents looked at.
FoundSamples == { {}, {"isbn"}, Identifiers }

\* Doc.metadata: title and author, where the document has them.
WithPDFMetadata(md, meta) ==
    [md EXCEPT !.pdf_title = IF "title" \in meta THEN "title" ELSE "",
               !.pdf_author = IF "author" \in meta THEN "author" ELSE ""]

\* A later method fills title and author only where they are empty.
FillPDFMetadata(md, meta) ==
    [md EXCEPT !.pdf_title = IF "title" \in meta /\ md.pdf_title = "" THEN "title2" ELSE @,
               !.pdf_author = IF "author" \in meta /\ md.pdf_author = "" THEN "author2" ELSE @]

\* TextQuality / text_quality
QualityOf(md) ==
    FilteredJoinLen(<< md.first_page_text.len, md.title_page_text.len,
                       md.copyright_page_text.len >>)

\* The pages read before the first page that raises, and whether one raised.
RECURSIVE ReadUntilRaise(_)
ReadUntilRaise(pages) ==
    IF pages = << >> \/ Head(pages).raises THEN << >>
    ELSE << Head(pages) >> \o ReadUntilRaise(Tail(pages))
SomeRaises(pages) == \E i \in 1..Len(pages) : pages[i].raises

LensOf(pages) == [i \in 1..Len(pages) |-> pages[i].len]

\* ------------------------------------------- the state of one extraction
\* The locals of ExtractPDFMetadata, passed through its steps as one value.
X == [md |-> Metadata, all |-> AllExtractedText, methods |-> ExtractionMethods,
      errors |-> ErrorMessages, raised |-> xraised]

\* ErrorMessages.append(f"<name>: ...")
Log(x, name) == [x EXCEPT !.errors = Append(@, name)]
\* ExtractionMethods.append(name)
Method(x, name) == [x EXCEPT !.methods = Append(@, name)]
\* History: the method raised an exception while the document was processed.
Raised(x, name) == [x EXCEPT !.raised = @ \cup {name}]

NewOCRText ==
    [first_page_text |-> EmptyText, title_page_text |-> EmptyText,
     copyright_page_text |-> EmptyText, table_of_contents |-> EmptyText,
     full_text_sample |-> EmptyText, abstract_text |-> EmptyText]

\* The keys of OCRText, in the order of the dictionary.
OCRFields == << "first_page_text", "title_page_text", "copyright_page_text",
                "table_of_contents", "full_text_sample", "abstract_text" >>

\* for Field in OCRData: if len(OCRData[Field]) > len(Metadata[Field]): ...
RECURSIVE MergeOCR(_, _, _)
MergeOCR(md, ocr, fields) ==
    IF fields = << >> THEN md
    ELSE LET f == Head(fields)
         IN MergeOCR(IF ocr[f].len > md[f].len THEN [md EXCEPT ![f] = ocr[f]] ELSE md,
                     ocr, Tail(fields))

\* What an image that cannot be read comes back as: the empty string.
BlankPage == Page(0, FALSE, FALSE, FALSE, FALSE)

\* ------------------------------------------- HimalayaGPUExtractor_Protected
MAX_PAGES_TO_PROCESS_PROTECTED == 12

\* The page loop of the PyMuPDF step, from page i on.
RECURSIVE PagesProtected(_, _, _)
PagesProtected(md, pages, i) ==
    IF i > Len(pages) THEN md
    ELSE LET p == pages[i]
             t == Cut(PageText(pages, i), MAX_TEXT_LENGTH)
             m1 == IF i = 1 THEN [md EXCEPT !.first_page_text = t]
                   ELSE IF (i = 2 \/ p.title) /\ md.title_page_text = EmptyText
                        THEN [md EXCEPT !.title_page_text = t]
                        ELSE md
             m2 == IF p.copyright THEN [m1 EXCEPT !.copyright_page_text = t] ELSE m1
             m3 == IF p.toc /\ p.len > m2.table_of_contents.len
                   THEN [m2 EXCEPT !.table_of_contents = t] ELSE m2
             m4 == IF p.abstract /\ i - 1 < 5
                   THEN [m3 EXCEPT !.abstract_text =
                                      Cut(PageText(pages, i), MAX_TEXT_LENGTH \div 2)]
                   ELSE m3
         IN PagesProtected(m4, pages, i + 1)

PyMuPDFProtected(x, pages, meta, openFails) ==
    IF openFails THEN Raised(Log(x, "PyMuPDF"), "PyMuPDF")
    ELSE LET scanned == SubSeq(pages, 1, Min(MAX_PAGES_TO_PROCESS_PROTECTED, Len(pages)))
             read == ReadUntilRaise(scanned)
             md == PagesProtected(WithPDFMetadata(x.md, meta), read, 1)
             x1 == [x EXCEPT !.md = md, !.all = LensOf(read)]
         IN IF SomeRaises(scanned) THEN Raised(Log(x1, "PyMuPDF"), "PyMuPDF")
            ELSE Method([x1 EXCEPT !.md.full_text_sample =
                             IF read # << >>
                             THEN Text(Min(JoinLen(LensOf(read)), MAX_TEXT_LENGTH), 0)
                             ELSE @],
                        "PyMuPDF")

\* ExtractWithPlumber under TimeoutProtected(20).  When the function raises,
\* the thread's handler "except Exception as E" finds the name Exception bound
\* to the list [None], raises a TypeError of its own and the thread dies:
\* Wrapper returns Result[0], which is None.
PlumberProtected(x, outcome, meta, tablesLen) ==
    LET x1 == [x EXCEPT !.md = FillPDFMetadata(@, meta)]
    IN CASE outcome = "tables" ->
                Method([x1 EXCEPT !.md.enhanced_extraction = TRUE,
                                  !.md.tables_content =
                                      Cut(Text(tablesLen, 0), MAX_TEXT_LENGTH)],
                       "PDFPlumber")
         [] outcome = "none" -> x1
         [] outcome = "raise" -> Raised(x1, "PDFPlumber")
         [] outcome = "timeout" -> Log(x1, "PDFPlumber")

\* The page loop of ExtractTextWithHimalayaOCR, from page i on.
RECURSIVE OCRPagesProtected(_, _, _)
OCRPagesProtected(ocr, pages, i) ==
    IF i > Len(pages) THEN ocr
    ELSE LET p == IF pages[i].raises THEN BlankPage ELSE pages[i]
             t == Cut(Text(p.len, i), MAX_TEXT_LENGTH)
             o1 == IF i = 1 THEN [ocr EXCEPT !.first_page_text = t]
                   ELSE IF i = 2 THEN [ocr EXCEPT !.title_page_text = t]
                   ELSE ocr
             o2 == IF p.copyright THEN [o1 EXCEPT !.copyright_page_text = t] ELSE o1
             o3 == IF p.toc /\ p.len > o2.table_of_contents.len
                   THEN [o2 EXCEPT !.table_of_contents = t] ELSE o2
             o4 == IF p.abstract /\ i - 1 < 3
                   THEN [o3 EXCEPT !.abstract_text =
                                      Cut(Text(p.len, i), MAX_TEXT_LENGTH \div 2)]
                   ELSE o3
             o5 == IF o4.full_text_sample = EmptyText
                   THEN [o4 EXCEPT !.full_text_sample = t] ELSE o4
         IN OCRPagesProtected(o5, pages, i + 1)

\* OCRData.values()
OCRValues(ocr, fields) == [i \in 1..Len(fields) |-> ocr[fields[i]].len]

OCRMerged(x, ocr, fields, values, name) ==
    Method([x EXCEPT !.md = [MergeOCR(@, ocr, fields) EXCEPT !.ocr_used = TRUE],
                     !.all = @ \o OCRValues(ocr, values)],
           name)

\* The OCR step: convert_from_path raising, and a page whose image cannot be
\* read, are caught inside ExtractTextWithHimalayaOCR and only printed.
OCRProtected(x, outcome, pages) ==
    CASE outcome = "timeout" -> Log(x, "HimalayaOCR")
      [] outcome = "raise" ->
            Raised(OCRMerged(x, NewOCRText, OCRFields, OCRFields, "HimalayaOCR"), "OCR")
      [] outcome = "pages" ->
            LET scanned == SubSeq(pages, 1, Min(4, Len(pages)))
                x1 == OCRMerged(x, OCRPagesProtected(NewOCRText, scanned, 1),
                                OCRFields, OCRFields, "HimalayaOCR")
            IN IF SomeRaises(scanned) THEN Raised(x1, "OCR") ELSE x1

\* ------------------------------------------- HimalayaGPUExtractor
MAX_PAGES_TO_PROCESS_GPU == 12

\* The page loop of the PyMuPDF step: a page that raises is logged and skipped.
RECURSIVE PagesGPU(_, _, _)
PagesGPU(x, pages, i) ==
    IF i > Len(pages) THEN x
    ELSE LET p == pages[i]
             t == Cut(PageText(pages, i), MAX_TEXT_LENGTH)
             m1 == IF i = 1 THEN [x.md EXCEPT !.first_page_text = t]
                   ELSE IF i = 2 THEN [x.md EXCEPT !.title_page_text = t]
                   ELSE x.md
             m2 == IF p.copyright THEN [m1 EXCEPT !.copyright_page_text = t] ELSE m1
             m3 == IF p.toc THEN [m2 EXCEPT !.table_of_contents = t] ELSE m2
             m4 == IF p.abstract THEN [m3 EXCEPT !.abstract_text = t] ELSE m3
         IN IF p.raises
            THEN PagesGPU(Raised(Log(x, "PyMuPDF"), "PyMuPDF"), pages, i + 1)
            ELSE PagesGPU([x EXCEPT !.md = m4, !.all = Append(@, p.len)], pages, i + 1)

PyMuPDFGPU(x, pages, meta, openFails) ==
    IF openFails THEN Raised(Log(x, "PyMuPDF"), "PyMuPDF")
    ELSE LET x1 == Method([x EXCEPT !.md = WithPDFMetadata(@, meta)], "PyMuPDF")
             x2 == PagesGPU(x1, SubSeq(pages, 1, Min(8, Len(pages))), 1)
         IN IF Len(pages) > 0
            THEN [x2 EXCEPT !.md.full_text_sample =
                                Text(Min(JoinLen(x2.all), MAX_TEXT_LENGTH), 0)]
            ELSE x2

PlumberGPU(x, outcome, meta, tablesLen) ==
    LET x1 == [x EXCEPT !.md = FillPDFMetadata(@, meta)]
    IN CASE outcome = "tables" ->
                Method([x1 EXCEPT !.md.enhanced_extraction = TRUE,
                                  !.md.tables_content =
                                      Cut(Text(tablesLen, 0), MAX_TEXT_LENGTH)],
                       "PDFPlumber")
         [] outcome = "none" -> x1
         [] outcome = "raise" -> Raised(Log(x1, "PDFPlumber"), "PDFPlumber")

\* The page loop of ExtractTextWithHimalayaOCR: every page appends its text,
\* cut to the remaining space, and one blank.
RECURSIVE OCRPagesGPU(_, _, _)
OCRPagesGPU(ocr, pages, i) ==
    IF i > Len(pages) THEN ocr
    ELSE LET p == IF pages[i].raises THEN BlankPage ELSE pages[i]
             t == Cut(Text(p.len, i), MAX_TEXT_LENGTH)
             o1 == IF i = 1 THEN [ocr EXCEPT !.first_page_text = t]
                   ELSE IF i = 2 THEN [ocr EXCEPT !.title_page_text = t]
                   ELSE ocr
             o2 == IF p.copyright THEN [o1 EXCEPT !.copyright_page_text = t] ELSE o1
             o3 == IF p.toc THEN [o2 EXCEPT !.table_of_contents = t] ELSE o2
             o4 == IF p.abstract THEN [o3 EXCEPT !.abstract_text = t] ELSE o3
             full == o4.full_text_sample.len
             o5 == IF full < MAX_TEXT_LENGTH
                   THEN [o4 EXCEPT !.full_text_sample =
                            Text(full + Min(p.len, MAX_TEXT_LENGTH - full) + 1, 0)]
                   ELSE o4
         IN OCRPagesGPU(o5, pages, i + 1)

OCRGPU(x, outcome, pages) ==
    CASE outcome = "noengine" ->
            OCRMerged(x, NewOCRText, OCRFields, OCRFields, "HimalayaOCR")
      [] outcome = "raise" ->
            Raised(OCRMerged(x, NewOCRText, OCRFields, OCRFields, "HimalayaOCR"), "OCR")
      [] outcome = "pages" ->
            LET scanned == SubSeq(pages, 1, Min(MAX_PAGES_TO_PROCESS_GPU, Len(pages)))
                x1 == OCRMerged(x, OCRPagesGPU(NewOCRText, scanned, 1),
                                OCRFields, OCRFields, "HimalayaOCR")
            IN IF SomeRaises(scanned) THEN Raised(x1, "OCR") ELSE x1

\* ------------------------------------------- EnhancedPDFExtractor
MAX_PAGES_TO_PROCESS_ENHANCED == 10

\* One page read into one field: first page, title page.
PageInto(x, pages, i, field, name) ==
    IF i > Len(pages) THEN x
    ELSE IF pages[i].raises THEN Raised(Log(x, name), name)
    ELSE [x EXCEPT !.md[field] = Cut(PageText(pages, i), MAX_TEXT_LENGTH),
                   !.all = Append(@, pages[i].len)]

\* A scan that stops at the first page with the words looked for.
RECURSIVE ScanFirst(_, _, _, _, _, _)
ScanFirst(x, pages, i, flag, field, name) ==
    IF i > Len(pages) THEN x
    ELSE IF pages[i].raises
         THEN ScanFirst(Raised(Log(x, name), name), pages, i + 1, flag, field, name)
    ELSE IF pages[i][flag]
         THEN [x EXCEPT !.md[field] = Cut(PageText(pages, i), MAX_TEXT_LENGTH)]
    ELSE ScanFirst(x, pages, i + 1, flag, field, name)

\* full_sample: pages are added until their join is longer than the maximum.
RECURSIVE FullSample(_, _, _, _)
FullSample(x, lens, pages, i) ==
    IF i > Len(pages)
    THEN [x EXCEPT !.md.full_text_sample = Text(Min(JoinLen(lens), MAX_TEXT_LENGTH), 0)]
    ELSE IF pages[i].raises
         THEN FullSample(Raised(Log(x, "PyMuPDF"), "PyMuPDF"), lens, pages, i + 1)
    ELSE IF JoinLen(Append(lens, pages[i].len)) > MAX_TEXT_LENGTH
         THEN FullSample(x, Append(lens, pages[i].len), << >>, 1)
    ELSE FullSample(x, Append(lens, pages[i].len), pages, i + 1)

PyMuPDFEnhanced(x, pages, meta, openFails) ==
    IF openFails THEN Raised(Log(x, "PyMuPDF"), "PyMuPDF")
    ELSE LET x1 == Method([x EXCEPT !.md = WithPDFMetadata(@, meta)], "PyMuPDF")
             x2 == PageInto(x1, pages, 1, "first_page_text", "PyMuPDF")
             x3 == PageInto(x2, pages, 2, "title_page_text", "PyMuPDF")
             x4 == ScanFirst(x3, SubSeq(pages, 1, Min(5, Len(pages))), 1,
                             "copyright", "copyright_page_text", "PyMuPDF")
             x5 == ScanFirst(x4, SubSeq(pages, 1, Min(10, Len(pages))), 1,
                             "toc", "table_of_contents", "PyMuPDF")
         IN IF Len(pages) > 0
            THEN FullSample(x5, << >>,
                            SubSeq(pages, 1, Min(MAX_PAGES_TO_PROCESS_ENHANCED, Len(pages))), 1)
            ELSE x1

PyPDF2Enhanced(x, pages, meta, openFails) ==
    IF openFails THEN Raised(Log(x, "PyPDF2"), "PyPDF2")
    ELSE LET x1 == Method([x EXCEPT !.md = FillPDFMetadata(@, meta)], "PyPDF2")
             x2 == PageInto(x1, pages, 1, "first_page_text", "PyPDF2")
             x3 == PageInto(x2, pages, 2, "title_page_text", "PyPDF2")
         IN ScanFirst(x3, SubSeq(pages, 1, Min(5, Len(pages))), 1,
                      "copyright", "copyright_page_text", "PyPDF2")

\* ExtractTextWithPDFPlumber catches its own exception and prints it; its
\* structured_text is then still empty.
PlumberEnhanced(x, outcome, meta, structLen, tablesLen) ==
    CASE outcome = "raise" -> Raised(x, "PDFPlumber")
      [] outcome = "text" ->
            IF structLen = 0 THEN x
            ELSE LET md1 == [x.md EXCEPT
                                !.enhanced_extraction = TRUE,
                                !.full_text_sample =
                                    IF @ = EmptyText
                                    THEN Text(Min(structLen, MAX_TEXT_LENGTH), 0) ELSE @,
                                !.tables_content = Cut(Text(tablesLen, 0), MAX_TEXT_LENGTH)]
                 IN Method([x EXCEPT !.md = FillPDFMetadata(md1, meta)], "PDFPlumber")

\* The keys ExtractPDFMetadata merges, and the values it adds to the text.
OCRFieldsEnhanced == << "first_page_text", "title_page_text", "copyright_page_text",
                        "table_of_contents", "full_text_sample" >>
OCRValuesEnhanced == << "first_page_text", "title_page_text", "copyright_page_text",
                        "full_text_sample" >>

RECURSIVE OCRPagesEnhanced(_, _, _)
OCRPagesEnhanced(ocr, pages, i) ==
    IF i > Len(pages) THEN ocr
    ELSE LET p == pages[i]
             t == Cut(Text(p.len, i), MAX_TEXT_LENGTH)
             o1 == IF i = 1 THEN [ocr EXCEPT !.first_page_text = t]
                   ELSE IF i = 2 THEN [ocr EXCEPT !.title_page_text = t]
                   ELSE ocr
             o2 == IF p.copyright THEN [o1 EXCEPT !.copyright_page_text = t] ELSE o1
             o3 == IF p.toc THEN [o2 EXCEPT !.table_of_contents = t] ELSE o2
             full == o3.full_text_sample.len
             o4 == IF full < MAX_TEXT_LENGTH
                   THEN [o3 EXCEPT !.full_text_sample =
                            Text(full + Min(p.len, MAX_TEXT_LENGTH - full), 0)]
                   ELSE o3
         IN OCRPagesEnhanced(o4, pages, i + 1)

\* A page that raises ends ExtractTextWithOCR; what was read so far is kept.
OCREnhanced(x, pages) ==
    LET scanned == SubSeq(pages, 1, Min(MAX_PAGES_TO_PROCESS_ENHANCED, Len(pages)))
        x1 == OCRMerged(x, OCRPagesEnhanced(NewOCRText, ReadUntilRaise(scanned), 1),
                        OCRFieldsEnhanced, OCRValuesEnhanced, "OCR")
    IN IF SomeRaises(scanned) THEN Raised(x1, "OCR") ELSE x1

\* ===================================================================
\* Identifier mining: strings, validators, pattern matches
\* ===================================================================
\* A string is the sequence of its characters.  A text to search is whether
\* it is the empty string, and what each pattern of the identifier's pattern
\* list finds in it (Pattern.findall), pattern by pattern.
Digits == {"0", "1", "2", "3", "4", "5", "6", "7", "8", "9"}
Whitespace == {" "}

Without(str, chars) == SelectSeq(str, LAMBDA c : c \notin chars)
AllIn(str, chars) == \A i \in 1..Len(str) : str[i] \in chars

\* str.upper(), for the only letter an ISBN holds
Upper(str) == [i \in 1..Len(str) |-> IF str[i] = "x" THEN "X" ELSE str[i]]

\* str.strip()
RECURSIVE Strip(_)
Strip(str) ==
    IF str = << >> THEN str
    ELSE IF Head(str) \in Whitespace THEN Strip(Tail(str))
    ELSE IF str[Len(str)] \in Whitespace THEN Strip(SubSeq(str, 1, Len(str) - 1))
    ELSE str

\* ^\d{9}[\dX]$ and ^\d{13}$
IsISBN10(str) ==
    Len(str) = 10 /\ AllIn(SubSeq(str, 1, 9), Digits) /\ str[10] \in Digits \cup {"X"}
IsISBN13(str) == Len(str) = 13 /\ AllIn(str, Digits)

\* ValidateISBN without ISBN.upper()
ValidateISBNCaseSensitive(ISBN) ==
    LET CleanISBN == Without(ISBN, Whitespace \cup {"-"})
        n == Len(CleanISBN)
        At(i, k) == SubSeq(CleanISBN, i, i + k - 1)
        hits == { i \in 1..n : \/ i + 9 <= n /\ IsISBN10(At(i, 10))
                               \/ i + 12 <= n /\ IsISBN13(At(i, 13)) }
        first == CHOOSE i \in hits : \A j \in hits : i <= j
    IN IF ISBN = << >> THEN << >>
       ELSE IF n = 10 THEN (IF IsISBN10(CleanISBN) THEN CleanISBN ELSE << >>)
       ELSE IF n = 13 THEN (IF IsISBN13(CleanISBN) THEN CleanISBN ELSE << >>)
       ELSE IF 10 <= n /\ n <= 17
            THEN (IF hits = {} THEN << >>
                  ELSE IF first + 9 <= n /\ IsISBN10(At(first, 10)) THEN At(first, 10)
                  ELSE At(first, 13))
       ELSE << >>

ValidateISBN(ISBN) ==
    LET CleanISBN == Without(Upper(ISBN), Whitespace \cup {"-"})
        n == Len(CleanISBN)
        At(i, k) == SubSeq(CleanISBN, i, i + k - 1)
        hits == { i \in 1..n : \/ i + 9 <= n /\ IsISBN10(At(i, 10))
                               \/ i + 12 <= n /\ IsISBN13(At(i, 13)) }
        first == CHOOSE i \in hits : \A j \in hits : i <= j
    IN IF ISBN = << >> THEN << >>
       ELSE IF n = 10 THEN (IF IsISBN10(CleanISBN) THEN CleanISBN ELSE << >>)
       ELSE IF n = 13 THEN (IF IsISBN13(CleanISBN) THEN CleanISBN ELSE << >>)
       ELSE IF 10 <= n /\ n <= 17
            THEN (IF hits = {} THEN << >>
                  ELSE IF first + 9 <= n /\ IsISBN10(At(first, 10)) THEN At(first, 10)
                  ELSE At(first, 13))
       ELSE << >>

ValidateLCCN(LCCN) ==
    LET CleanLCCN == Without(LCCN, Whitespace \cup {"-"})
    IN IF LCCN # << >> /\ Len(CleanLCCN) >= 8 /\ Len(CleanLCCN) <= 12
          /\ AllIn(CleanLCCN, Digits)
       THEN CleanLCCN ELSE << >>

\* What the ISSN loop does with the match ExtractWithPatterns returns.
CleanedISSN(ISSNMatch) ==
    LET c == Without(ISSNMatch, Whitespace)
        CleanISSN == IF Len(c) = 8 THEN SubSeq(c, 1, 4) \o << "-" >> \o SubSeq(c, 5, 8) ELSE c
    IN IF Len(CleanISSN) = 9 /\ AllIn(SubSeq(CleanISSN, 1, 4), Digits)
          /\ CleanISSN[5] = "-" /\ AllIn(SubSeq(CleanISSN, 6, 9), Digits)
       THEN CleanISSN ELSE << >>

\* What the OCLC loop does with the match ExtractWithPatterns returns.
AcceptedOCLC(OCLCMatch) ==
    IF Len(OCLCMatch) >= 8 /\ Len(OCLCMatch) <= 12 /\ AllIn(OCLCMatch, Digits)
    THEN OCLCMatch ELSE << >>

\* All matches of a text, in the order the loops over patterns and matches
\* meet them.
RECURSIVE Flatten(_)
Flatten(matches) ==
    IF matches = << >> THEN << >> ELSE Head(matches) \o Flatten(Tail(matches))

\* ExtractWithPatterns(Text, Patterns), without a validator
ExtractWithPatterns(matches) ==
    LET found == SelectSeq(Flatten(matches), LAMBDA m : m # << >>)
    IN IF found = << >> THEN << >> ELSE Strip(Head(found))

\* The first match of a text that ValidateISBN accepts, stored as it was matched.
FirstISBNRaw(matches) ==
    LET flat == Flatten(matches)
        valid == SelectSeq(flat, LAMBDA m : ValidateISBN(m) # << >>)
    IN IF valid = << >> THEN << >> ELSE Head(valid)

\* The first match of a text that ValidateISBN accepts, validated.
FirstISBN(matches) ==
    LET flat == Flatten(matches)
        valid == SelectSeq([i \in 1..Len(flat) |-> ValidateISBN(flat[i])],
                           LAMBDA v : v # << >>)
    IN IF valid = << >> THEN << >> ELSE Head(valid)

FirstLCCN(matches) ==
    LET flat == Flatten(matches)
        valid == SelectSeq([i \in 1..Len(flat) |-> ValidateLCCN(flat[i])],
                           LAMBDA v : v # << >>)
    IN IF valid = << >> THEN << >> ELSE Head(valid)

\* What one text gives for one identifier.
Yield(kind, text) ==
    IF text.empty THEN << >>
    ELSE CASE kind = "isbn" -> FirstISBN(text.matches)
           [] kind = "lccn" -> FirstLCCN(text.matches)
           [] kind = "issn" -> CleanedISSN(ExtractWithPatterns(text.matches))
           [] kind = "oclc" -> AcceptedOCLC(ExtractWithPatterns(text.matches))
           [] kind = "doi" -> ExtractWithPatterns(text.matches)
           [] kind = "edition" -> ExtractWithPatterns(text.matches)

\* SearchTexts, lowest priority first
SearchTextsReversed(texts) == << texts.general, texts.title, texts.copyright >>

\* SearchTexts = [(CopyrightText, 3), (TitleText, 2), (AllText[:25000], 1)]
SearchTexts(texts) == << texts.copyright, texts.title, texts.general >>

\* for Text, Priority in SearchTexts: if Text and not Metadata[field]: ...
RECURSIVE FirstYield(_, _)
FirstYield(kind, texts) ==
    IF texts = << >> THEN << >>
    ELSE IF Yield(kind, Head(texts)) # << >> THEN Yield(kind, Head(texts))
    ELSE FirstYield(kind, Tail(texts))

Mined(kind, texts) == FirstYield(kind, SearchTexts(texts))

EmptyString == [empty |-> TRUE, matches |-> << >>]
Found(matches) == [empty |-> FALSE, matches |-> matches]
NoTexts == [kind |-> "none", copyright |-> EmptyString, title |-> EmptyString,
            general |-> EmptyString]
NoneExtracted == [isbn |-> << >>, lccn |-> << >>, issn |-> << >>, oclc |-> << >>,
                  doi |-> << >>, year |-> << >>, edition |-> << >>]

\* ===================================================================
\* Start-up: dependency checks and the hardware manager
\* ===================================================================
\* What a machine does with an optional package: "ok" it works; "nocuda"
\* torch imports and reports no CUDA device; "broken" it imports and raises
\* when used (the tesseract binary is missing, a model cannot be loaded);
\* "missing" importing it raises ImportError; "crash" importing it raises
\* another exception (a shared library that cannot be loaded).
Packages == {"torch", "easyocr", "paddleocr", "pytesseract"}
Outcomes(package) ==
    IF package = "torch" THEN {"ok", "nocuda", "broken", "missing", "crash"}
    ELSE {"ok", "broken", "missing", "crash"}
Machines == { m \in [Packages -> {"ok", "nocuda", "broken", "missing", "crash"}] :
                \A p \in Packages : m[p] \in Outcomes(p) }
Imports(outcome) == outcome \in {"ok", "nocuda", "broken"}

\* None and the engine names that are falsy in Python
NoEngine == "None"

\* DetectGPUCapabilities: HimalayaGPUExtractor catches ImportError only,
\* HimalayaGPUExtractor_Protected every exception.
DetectGPUCapabilities(v, probes) ==
    CASE probes["torch"] = "ok" -> [raises |-> FALSE, CUDA_Available |-> TRUE]
      [] probes["torch"] \in {"nocuda", "missing"} -> [raises |-> FALSE, CUDA_Available |-> FALSE]
      [] probes["torch"] \in {"broken", "crash"} ->
            [raises |-> (v = "GPU"), CUDA_Available |-> FALSE]

\* InitializeOCREngines: HimalayaGPUExtractor builds each engine inside
\* try/except Exception; HimalayaGPUExtractor_Protected only imports the
\* packages, inside try/except ImportError.
InitializeOCREngines(v, probes, cuda) ==
    IF v = "GPU"
    THEN [raises |-> FALSE,
          Engines |-> { e \in {"EasyOCR_GPU", "PaddleOCR_GPU", "Tesseract_CPU"} :
                          \/ e = "EasyOCR_GPU" /\ cuda /\ probes["easyocr"] = "ok"
                          \/ e = "PaddleOCR_GPU" /\ cuda /\ probes["paddleocr"] = "ok"
                          \/ e = "Tesseract_CPU" /\ probes["pytesseract"] = "ok" }]
    ELSE [raises |-> "crash" \in {probes["pytesseract"], probes["easyocr"]},
          Engines |-> IF probes["pytesseract"] = "crash" THEN {}
                      ELSE { e \in {"TesseractCPU", "EasyOCR"} :
                               \/ e = "TesseractCPU" /\ Imports(probes["pytesseract"])
                               \/ e = "EasyOCR" /\ Imports(probes["easyocr"]) /\ cuda }]

\* SelectOptimalEngine with the CPU engine asked for first
SelectCPUFirst(v, Engines, cuda) ==
    IF v = "GPU"
    THEN CASE "Tesseract_CPU" \in Engines -> "Tesseract_CPU"
           [] "Tesseract_CPU" \notin Engines /\ "EasyOCR_GPU" \in Engines -> "EasyOCR_GPU"
           [] {"Tesseract_CPU", "EasyOCR_GPU"} \cap Engines = {} /\ "PaddleOCR_GPU" \in Engines ->
                 "PaddleOCR_GPU"
           [] OTHER -> NoEngine
    ELSE CASE "TesseractCPU" \in Engines -> "Tesseract-CPU"
           [] "TesseractCPU" \notin Engines /\ "EasyOCR" \in Engines /\ cuda -> "EasyOCR-GPU"
           [] OTHER -> "CPU-Fallback"

SelectOptimalEngine(v, Engines, cuda) ==
    IF v = "GPU"
    THEN CASE "EasyOCR_GPU" \in Engines -> "EasyOCR_GPU"
           [] "EasyOCR_GPU" \notin Engines /\ "PaddleOCR_GPU" \in Engines -> "PaddleOCR_GPU"
           [] {"EasyOCR_GPU", "PaddleOCR_GPU"} \cap Engines = {} /\ "Tesseract_CPU" \in Engines ->
                 "Tesseract_CPU"
           [] OTHER -> NoEngine
    ELSE CASE "EasyOCR" \in Engines /\ cuda -> "EasyOCR-GPU"
           [] ~("EasyOCR" \in Engines /\ cuda) /\ "TesseractCPU" \in Engines -> "Tesseract-CPU"
           [] OTHER -> "CPU-Fallback"

\* The module's own imports: EnhancedPDFExtractor imports pytesseract at the top.
LoadRaises(v, probes) == v = "Enhanced" /\ ~Imports(probes["pytesseract"])

\* The OCR capability check of HimalayaGPUExtractor's __main__: "raise" when an
\* import raises something else than ImportError, "exit" when nothing imports.
RECURSIVE CheckOCR(_, _)
CheckOCR(probes, packages) ==
    IF packages = << >> THEN "exit"
    ELSE IF probes[Head(packages)] = "crash" THEN "raise"
    ELSE IF Imports(probes[Head(packages)])
         THEN (IF \E i \in 1..Len(packages) : probes[packages[i]] = "crash"
               THEN "raise" ELSE "go")
    ELSE CheckOCR(probes, Tail(packages))

\* __main__ before the extractor is constructed.  The dependency check of
\* EnhancedPDFExtractor passes once the module has loaded.
MainCheck(v, probes) ==
    IF v = "GPU" THEN CheckOCR(probes, << "easyocr", "paddleocr", "pytesseract" >>)
    ELSE "go"

\* VerifyOCRSetup: pytesseract.get_tesseract_version() inside try/except Exception
VerifyOCRSetup(probes) == probes["pytesseract"] = "ok"

\* The hardware state once the extractor is constructed, for the machines on
\* which it is.
Constructs(v, probes) ==
    /\ ~LoadRaises(v, probes)
    /\ MainCheck(v, probes) = "go"
    /\ v # "Enhanced" =>
          /\ ~DetectGPUCapabilities(v, probes).raises
          /\ ~InitializeOCREngines(v, probes, DetectGPUCapabilities(v, probes).CUDA_Available).raises

Constructed(probes) ==
    LET cuda == DetectGPUCapabilities(variant, probes).CUDA_Available
        Engines == InitializeOCREngines(variant, probes, cuda).Engines
    IN /\ hpc = "ready"
       /\ Probes = probes
       /\ PageLog = << >>
       /\ IF variant = "Enhanced"
          THEN /\ CUDA_Available = FALSE
               /\ OCREngines = {}
               /\ ActiveEngine = NoEngine
               /\ OCRAvailable = VerifyOCRSetup(probes)
          ELSE /\ CUDA_Available = cuda
               /\ OCREngines = Engines
               /\ ActiveEngine = SelectOptimalEngine(variant, Engines, cuda)
               /\ OCRAvailable = FALSE

\* A machine with tesseract and nothing else; machines without any OCR backend.
TesseractOnly ==
    [p \in Packages |-> IF p = "pytesseract" THEN "ok" ELSE "missing"]
NothingInstalled == [p \in Packages |-> "missing"]
TesseractBroken ==
    [p \in Packages |-> IF p = "pytesseract" THEN "broken" ELSE "missing"]

\* No OCR backend: the selector's answer, or OCRAvailable of EnhancedPDFExtractor.
Degraded ==
    IF variant = "Enhanced" THEN ~OCRAvailable
    ELSE ActiveEngine \in {NoEngine, "CPU-Fallback"}

\* No PDFTimeout block is being looked at.
NoTimers == [open |-> "none", page |-> "none"]
TIdle ==
    /\ DocPages = << >>
    /\ PageNum = 0
    /\ Timers = NoTimers
    /\ overBudget = {}

\* Start-up is not being looked at: the extractor stands constructed.
HIdle == Constructed(TesseractOnly) /\ TIdle

\* ------------------------------------------------------------ the records
Header == [kind |-> "header", filename |-> << >>, pdf_title |-> "", extracted_isbn |-> "",
           extraction_method |-> "", extraction_quality_score |-> 0,
           errors |-> "", run |-> 0, idx |-> 0]

\* What ExtractPDFMetadata may return for a document (an abstraction of its
\* Metadata dictionary: the fields the batch loop and the ledger look at).
ResultSamples ==
    { [pdf_title |-> "Title", extracted_isbn |-> "0306406152", extraction_method |-> "PyMuPDF",
       extraction_quality_score |-> 55, errors |-> ""],
      [pdf_title |-> "", extracted_isbn |-> "", extraction_method |-> "Failed",
       extraction_quality_score |-> 0, errors |-> "PyMuPDF: cannot open"] }

\* Python's None, where a Metadata dictionary is expected.
None == [pdf_title |-> "None", extracted_isbn |-> "None", extraction_method |-> "None",
         extraction_quality_score |-> 0, errors |-> "None"]

NoThread == [state |-> "none", result |-> None]

ResultRow(name, res) ==
    [kind |-> "row", filename |-> name, pdf_title |-> res.pdf_title,
     extracted_isbn |-> res.extracted_isbn,
     extraction_method |-> res.extraction_method,
     extraction_quality_score |-> res.extraction_quality_score,
     errors |-> res.errors, run |-> run, idx |-> FileIndex]

\* CorruptedMetadata of the except TimeoutError branch.
CorruptedMetadata(name) ==
    [kind |-> "row", filename |-> name, pdf_title |-> "CORRUPTED PDF - TIMEOUT",
     extracted_isbn |-> "",
     extraction_method |-> "Timeout Protection",
     extraction_quality_score |-> 0,
     errors |-> "Timeout after 120s - likely corrupted PDF structure",
     run |-> run, idx |-> FileIndex]

Rows(lines) == SelectSeq(lines, LAMBDA l : l.kind = "row")

\* ----------------------------------------------------------- AppendToCSV
\* open(OutputFile, 'a'): the lines after AppendToCSV(BookData).
AppendedTruncating(lines, exists, row) == << Header, row >>
Appended(lines, exists, row) ==
    (IF exists THEN lines ELSE << Header >>) \o << row >>

\* AppendToCSV(None): writerow raises after the header, if any, was written;
\* the error is printed and swallowed.
AppendedNone(lines, exists) == IF exists THEN lines ELSE << Header >>

\* ------------------------------------------------------- LoadExistingData
LoadExistingData(lines, exists) ==
    IF exists /\ Len(lines) >= 1
    THEN { LedgerKey(r.filename) : r \in Range(Rows(lines)) }
    ELSE {}

\* ----------------------------------------------------------------- Init
PipeInit(dirs) ==
    /\ variant \in Variants
    /\ Directory \in dirs
    /\ run = 0
    /\ pc = "idle"
    /\ ProcessedFiles = {}
    /\ UnprocessedFiles = << >>
    /\ FileIndex = 0
    /\ csv = << >>
    /\ csvExists = FALSE
    /\ worker = NoThread
    /\ abandoned = {}
    /\ ProcessedCount = 0 /\ ErrorCount = 0 /\ TimeoutCount = 0
    /\ BibliographicHitCount = 0
    /\ startLen = 0
    /\ afterComplete = FALSE
    /\ afterCrash = FALSE
    /\ timedOutNow = {}
    /\ timedOutEarlier = {}
    /\ raisedNow = {}

\* ExtractPDFMetadata is not being looked at.
XIdle ==
    /\ xpc = "idle"
    /\ Metadata = NewMetadata
    /\ ErrorMessages = << >>
    /\ ExtractionMethods = << >>
    /\ AllExtractedText = << >>
    /\ TextQuality = 0
    /\ xraised = {}
    /\ produced = {}
    /\ plumberThread = {}

\* The identifier mining is not being looked at.
IIdle ==
    /\ ipc = "idle"
    /\ MatchedTexts = NoTexts
    /\ Extracted = NoneExtracted

Init ==
    /\ PipeInit({ d \in SeqsUpTo(FileNames, MaxDocs) : NoRepeat(d) })
    /\ XIdle /\ IIdle /\ HIdle

Running == pc \in {"loop", "join"}
Ended == pc \in {"idle", "done", "nothing", "failed", "crashed"}

\* A process start: __init__ (LoadExistingData) and ProcessAllPDFs up to its loop.
StartRun ==
    /\ UNCHANGED nonPipeVars
    /\ Ended
    /\ run < MaxRuns
    /\ run' = run + 1
    /\ LET Loaded == LoadExistingData(csv, csvExists)
           Remaining == SelectSeq(Directory, LAMBDA F : Stem(F) \notin Loaded)
       IN /\ ProcessedFiles' = Loaded
          /\ UnprocessedFiles' = Remaining
          /\ pc' = IF Len(Directory) = 0 THEN "failed"
                   ELSE IF Len(Remaining) = 0 THEN "nothing"
                   ELSE "loop"
    /\ FileIndex' = 1
    /\ worker' = NoThread
    /\ abandoned' = {}
    /\ ProcessedCount' = 0 /\ ErrorCount' = 0 /\ TimeoutCount' = 0
    /\ BibliographicHitCount' = 0
    /\ startLen' = Len(csv)
    /\ afterComplete' = (afterComplete \/ pc \in {"done", "nothing"})
    /\ afterCrash' = (pc = "crashed")
    /\ timedOutEarlier' = timedOutEarlier \cup timedOutNow
    /\ timedOutNow' = {}
    /\ raisedNow' = {}
    /\ UNCHANGED << variant, Directory, csv, csvExists >>

Current == UnprocessedFiles[FileIndex]

\* HimalayaGPUExtractor_Protected: self.ExtractPDFMetadata(PDFFile) enters the
\* TimeoutProtected wrapper, which starts the thread and joins it.
SpawnExtract ==
    /\ UNCHANGED nonPipeVars
    /\ variant = "Protected"
    /\ pc = "loop"
    /\ FileIndex <= Len(UnprocessedFiles)
    /\ pc' = "join"
    /\ worker' = [state |-> "running", result |-> None]
    /\ UNCHANGED << variant, Directory, run, ProcessedFiles, UnprocessedFiles, FileIndex,
                    csv, csvExists, abandoned, ProcessedCount, ErrorCount, TimeoutCount, statVars,
                    startLen, afterComplete, afterCrash, timedOutNow, timedOutEarlier,
                    raisedNow >>

\* What ExtractPDFMetadata adds to the statistics of self while it runs to its
\* end: BibliographicHitCount['ISBN'] += 1 where it stores an ISBN.  The batch
\* loop never reads the statistics before its final report; they are followed
\* (counted) in SpecStats and left out of the other specifications.
Counts(res, counted) ==
    BibliographicHitCount' =
        BibliographicHitCount + (IF counted /\ res.extracted_isbn # "" THEN 1 ELSE 0)

\* Target: Result[0] = Func(...) completes.
TargetReturns(counted) ==
    /\ UNCHANGED nonPipeVars
    /\ pc = "join"
    /\ worker.state = "running"
    /\ \E res \in ResultSamples :
          /\ worker' = [state |-> "finished", result |-> res]
          /\ Counts(res, counted)
    /\ UNCHANGED << variant, Directory, run, pc, ProcessedFiles, UnprocessedFiles, FileIndex,
                    csv, csvExists, abandoned, ProcessedCount, ErrorCount, TimeoutCount,
                    startLen, afterComplete, afterCrash, timedOutNow, timedOutEarlier,
                    raisedNow >>

WorkerReturn == TargetReturns(FALSE)

\* Target: Func raises.  "except Exception as E" names Wrapper's local list
\* Exception = [None], not the builtin class, so matching the handler raises
\* TypeError and the thread dies with Result[0] and Exception[0] still None.
WorkerRaise ==
    /\ UNCHANGED nonPipeVars
    /\ pc = "join"
    /\ worker.state = "running"
    /\ worker' = [state |-> "finished", result |-> None]
    /\ raisedNow' = raisedNow \cup {Current}
    /\ UNCHANGED << variant, Directory, run, pc, ProcessedFiles, UnprocessedFiles, FileIndex,
                    csv, csvExists, abandoned, ProcessedCount, ErrorCount, TimeoutCount, statVars,
                    startLen, afterComplete, afterCrash, timedOutNow, timedOutEarlier >>

\* Thread.join returned with the thread dead: Wrapper returns Result[0].
JoinFinished ==
    /\ UNCHANGED nonPipeVars
    /\ pc = "join"
    /\ worker.state = "finished"
    /\ IF worker.result = None
       THEN \* AppendToCSV(None) swallows its error, ProcessedCount += 1, then
            \* ExtractedMetadata['extraction_quality_score'] raises TypeError,
            \* caught by the outer except: ErrorCount += 1, continue.
            /\ csv' = AppendedNone(csv, csvExists)
            /\ ErrorCount' = ErrorCount + 1
       ELSE /\ csv' = Appended(csv, csvExists, ResultRow(Current, worker.result))
            /\ UNCHANGED ErrorCount
    /\ csvExists' = TRUE
    /\ ProcessedCount' = ProcessedCount + 1
    /\ FileIndex' = FileIndex + 1
    /\ worker' = NoThread
    /\ pc' = "loop"
    /\ UNCHANGED << variant, Directory, run, ProcessedFiles, UnprocessedFiles,
                    abandoned, TimeoutCount, statVars,
                    startLen, afterComplete, afterCrash, timedOutNow, timedOutEarlier,
                    raisedNow >>

\* Thread.join(TimeoutSeconds) returned with the thread still alive: Wrapper
\* raises TimeoutError, the except TimeoutError branch appends the placeholder.
JoinNoTimeout == FALSE /\ UNCHANGED vars
JoinTimeout ==
    /\ UNCHANGED nonPipeVars
    /\ pc = "join"
    /\ worker.state = "running"
    /\ csv' = Appended(csv, csvExists, CorruptedMetadata(Current))
    /\ csvExists' = TRUE
    /\ TimeoutCount' = TimeoutCount + 1
    /\ abandoned' = abandoned \cup {Current}
    /\ timedOutNow' = timedOutNow \cup {Current}
    /\ FileIndex' = FileIndex + 1
    /\ worker' = NoThread
    /\ pc' = "loop"
    /\ UNCHANGED << variant, Directory, run, ProcessedFiles, UnprocessedFiles,
                    ProcessedCount, ErrorCount, statVars,
                    startLen, afterComplete, afterCrash, timedOutEarlier, raisedNow >>

\* An abandoned thread that appends its own result when it ends
AbandonedAppends ==
    /\ UNCHANGED nonPipeVars
    /\ Running
    /\ \E d \in abandoned, res \in ResultSamples :
          /\ abandoned' = abandoned \ {d}
          /\ csv' = Appended(csv, csvExists, ResultRow(d, res))
          /\ Counts(res, FALSE)
    /\ csvExists' = TRUE
    /\ UNCHANGED << variant, Directory, run, pc, ProcessedFiles, UnprocessedFiles, FileIndex,
                    worker, ProcessedCount, ErrorCount, TimeoutCount,
                    startLen, afterComplete, afterCrash, timedOutNow, timedOutEarlier,
                    raisedNow >>

\* An abandoned daemon thread runs on and ends on its own: ExtractPDFMetadata
\* raises, or runs to its end, adding to the statistics of self as it does
\* (its Result list is its own, and nobody reads it any more).
ThreadEnds(counted) ==
    /\ UNCHANGED nonPipeVars
    /\ Running
    /\ \E d \in abandoned : abandoned' = abandoned \ {d}
    /\ \/ UNCHANGED statVars
       \/ \E res \in ResultSamples : Counts(res, counted)
    /\ UNCHANGED << variant, Directory, run, pc, ProcessedFiles, UnprocessedFiles, FileIndex,
                    csv, csvExists, worker, ProcessedCount, ErrorCount, TimeoutCount,
                    startLen, afterComplete, afterCrash, timedOutNow, timedOutEarlier,
                    raisedNow >>

AbandonedFinish == ThreadEnds(FALSE)

\* EnhancedPDFExtractor.ProcessRemainingPDFs and HimalayaGPUExtractor.ProcessAllPDFs:
\* one iteration of the loop, ExtractPDFMetadata called directly.
PlainProcess ==
    /\ UNCHANGED nonPipeVars
    /\ variant \in {"Enhanced", "GPU"}
    /\ pc = "loop"
    /\ FileIndex <= Len(UnprocessedFiles)
    /\ \/ \E res \in ResultSamples :
            /\ csv' = Appended(csv, csvExists, ResultRow(Current, res))
            /\ csvExists' = TRUE
            /\ ProcessedCount' = ProcessedCount + 1
            /\ FileIndex' = FileIndex + 1
            /\ UNCHANGED << pc, ErrorCount, raisedNow >>
       \/ \* ExtractPDFMetadata raises: the outer except counts it and goes on
          /\ ErrorCount' = ErrorCount + 1
          /\ raisedNow' = raisedNow \cup {Current}
          /\ FileIndex' = FileIndex + 1
          /\ UNCHANGED << pc, csv, csvExists, ProcessedCount >>
       \/ \* a library call never returns: nothing bounds it in these two scripts
          /\ pc' = "hung"
          /\ UNCHANGED << csv, csvExists, ProcessedCount, ErrorCount, FileIndex, raisedNow >>
    /\ UNCHANGED << variant, Directory, run, ProcessedFiles, UnprocessedFiles,
                    worker, abandoned, TimeoutCount, statVars,
                    startLen, afterComplete, afterCrash, timedOutNow, timedOutEarlier >>

\* The loop is exhausted: final progress and report, return True.
FinalReport ==
    /\ UNCHANGED nonPipeVars
    /\ pc = "loop"
    /\ FileIndex > Len(UnprocessedFiles)
    /\ pc' = "done"
    /\ UNCHANGED << variant, Directory, run, ProcessedFiles, UnprocessedFiles, FileIndex,
                    csv, csvExists, worker, abandoned, ProcessedCount, ErrorCount, TimeoutCount, statVars,
                    startLen, afterComplete, afterCrash, timedOutNow, timedOutEarlier,
                    raisedNow >>

\* The process is killed (crash or interrupt): its memory and threads are gone,
\* the output file stays as it is.
Crash ==
    /\ UNCHANGED nonPipeVars
    /\ Running \/ pc = "hung"
    /\ pc' = "crashed"
    /\ worker' = NoThread
    /\ abandoned' = {}
    /\ UNCHANGED << variant, Directory, run, ProcessedFiles, UnprocessedFiles, FileIndex,
                    csv, csvExists, ProcessedCount, ErrorCount, TimeoutCount, statVars,
                    startLen, afterComplete, afterCrash, timedOutNow, timedOutEarlier,
                    raisedNow >>

MainStep == SpawnExtract \/ JoinFinished \/ JoinTimeout \/ FinalReport

Next ==
    \/ StartRun
    \/ SpawnExtract
    \/ WorkerReturn
    \/ WorkerRaise
    \/ JoinFinished
    \/ JoinTimeout
    \/ AbandonedFinish
    \/ PlainProcess
    \/ FinalReport
    \/ Crash

Spec == Init /\ [][Next]_vars

\* Thread.start, Thread.join(TimeoutSeconds) and the loop's own statements
\* always return: the main thread of the Protected script keeps stepping.
FairSpec == Spec /\ WF_vars(MainStep)

\* The Protected script with the statistics of self followed.
InitStats == Init /\ variant = "Protected"

WorkerReturnCounted == TargetReturns(TRUE)

AbandonedFinishCounted == ThreadEnds(TRUE)

NextStats ==
    \/ StartRun
    \/ SpawnExtract
    \/ WorkerReturnCounted
    \/ WorkerRaise
    \/ JoinFinished
    \/ JoinTimeout
    \/ AbandonedFinishCounted
    \/ FinalReport
    \/ Crash

SpecStats == InitStats /\ [][NextStats]_vars

\* ===================================================================
\* Properties of the batch loop
\* ===================================================================
FileNamesOf(lines) == [i \in 1..Len(Rows(lines)) |-> Rows(lines)[i].filename]

\* The rows this run has appended so far.
RowsOfRun == SelectSeq(csv, LAMBDA l : l.kind = "row" /\ l.run = run)

\* The position of document d in this run's list (0: not in it).
IndexOf(d) ==
    IF d \in Range(UnprocessedFiles)
    THEN CHOOSE i \in 1..Len(UnprocessedFiles) : UnprocessedFiles[i] = d
    ELSE 0

HasRecord(d, lines) == \E i \in 1..Len(lines) : lines[i].kind = "row" /\ lines[i].filename = d

\* C1: resumability is idempotent: a run that starts after a run that ran to
\* completion on the same directory finds no remaining document and appends
\* nothing, and the output never holds two records with the same filename.
\* (Stated for the runs that start with a record of every document in the
\* output: the reading of "run to completion" most favourable to the claim.)
C1_ResumeIdempotent ==
    /\ NoRepeat(FileNamesOf(csv))
    /\ (/\ afterComplete
        /\ \A i \in 1..Len(Directory) : HasRecord(Directory[i], SubSeq(csv, 1, startLen)))
          => (Len(UnprocessedFiles) = 0 /\ Len(csv) = startLen)

\* C2: every document whose extraction timed out in this run has exactly one
\* record of this run, the placeholder (title CORRUPTED PDF - TIMEOUT, score 0,
\* errors not empty), and a document that timed out in an earlier run is not
\* in the list of a later run.
C2_TimeoutPlaceholder ==
    /\ \A d \in timedOutNow :
          /\ Cardinality({ i \in 1..Len(RowsOfRun) : RowsOfRun[i].filename = d }) = 1
          /\ \A i \in 1..Len(RowsOfRun) :
                RowsOfRun[i].filename = d =>
                    /\ RowsOfRun[i].pdf_title = "CORRUPTED PDF - TIMEOUT"
                    /\ RowsOfRun[i].extraction_quality_score = 0
                    /\ RowsOfRun[i].errors # ""
    /\ \A d \in timedOutEarlier : d \notin Range(UnprocessedFiles)

\* C3: in the Protected script a run that has entered the loop reaches its
\* final report (unless the process is killed), whatever documents hang.
C3_ReachesFinalReport ==
    (variant = "Protected" /\ Running) ~> (pc \in {"done", "crashed"})

\* C3 witness: the final report is reached after a document timed out, while
\* its abandoned worker is still running.
C3_Witness ==
    /\ variant = "Protected" /\ pc = "done"
    /\ timedOutNow # {} /\ abandoned # {}
    /\ Len(UnprocessedFiles) = MaxDocs

\* C4: every error raised while one document is processed ends up in the
\* errors field of a record appended for that document, and the loop goes on
\* to every later document.
C4_ErrorsCaptured ==
    /\ \A d \in raisedNow :
          IndexOf(d) < FileIndex =>
              \E i \in 1..Len(RowsOfRun) :
                  RowsOfRun[i].filename = d /\ RowsOfRun[i].errors # ""
    /\ pc = "done" => FileIndex = Len(UnprocessedFiles) + 1

\* C5: a run that follows a killed run processes exactly the documents that
\* had no record when it started, and no document gets a second record.
C5_CrashResume ==
    afterCrash =>
        /\ \A i \in 1..Len(Directory) :
              (Directory[i] \in Range(UnprocessedFiles))
                  <=> ~HasRecord(Directory[i], SubSeq(csv, 1, startLen))
        /\ NoRepeat(FileNamesOf(csv))

\* C6: the output is append-only: every step leaves the earlier lines as a
\* prefix of the later ones, a header is written only as the first line of an
\* output that did not exist, and a row is appended after all rows of the
\* documents processed before it (earlier run, or earlier in this run's list).
C6_AppendOnly ==
    [][ /\ IsPrefix(csv, csv')
        /\ \A k \in (Len(csv) + 1)..Len(csv') :
              /\ csv'[k].kind = "header" => (~csvExists /\ k = 1)
              /\ csv'[k].kind = "row" =>
                    \A j \in 1..(k - 1) :
                        csv'[j].kind = "row" =>
                            \/ csv'[j].run < csv'[k].run
                            \/ csv'[j].run = csv'[k].run /\ csv'[j].idx < csv'[k].idx
      ]_vars

\* C6 witness: rows of two runs, in order, under the one header.
C6_Witness ==
    /\ Len(csv) = 3
    /\ csv[1].kind = "header" /\ csv[2].kind = "row" /\ csv[3].kind = "row"
    /\ csv[2].run = 1 /\ csv[3].run = 2

\* ===================================================================
\* ExtractPDFMetadata, step by step
\* ===================================================================
\* len(AllText)
AllTextLen(all) ==
    IF variant = "Protected" THEN Min(FilteredJoinLen(all), 100000)
    ELSE FilteredJoinLen(all)

\* bool(value) * weight
Weighted(present, weight) == IF present THEN weight * ScoreScale ELSE 0

QualityFactors(md, all) ==
    CASE variant = "Protected" ->
            << Weighted(md.pdf_title # "", 10), Weighted(md.pdf_author # "", 10),
               Weighted("isbn" \in md.found, 20), Weighted("lccn" \in md.found, 15),
               Weighted("issn" \in md.found, 10), Weighted("oclc" \in md.found, 5),
               Weighted("year" \in md.found, 10), Weighted("publisher" \in md.found, 10),
               Weighted(md.first_page_text # EmptyText, 15),
               Weighted(md.title_page_text # EmptyText, 10),
               Weighted(md.copyright_page_text # EmptyText, 10),
               Weighted(md.full_text_sample # EmptyText, 5),
               Weighted(md.abstract_text # EmptyText, 5),
               Weighted(md.tables_content # EmptyText, 5),
               Weighted(md.ocr_used, 10), Weighted(md.enhanced_extraction, 5),
               Min((AllTextLen(all) * ScoreScale) \div 150, 15 * ScoreScale) >>
      [] variant = "GPU" ->
            << Weighted(md.pdf_title # "", 10), Weighted(md.pdf_author # "", 10),
               Weighted("isbn" \in md.found, 15), Weighted("year" \in md.found, 10),
               Weighted(md.first_page_text # EmptyText, 20),
               Weighted(md.title_page_text # EmptyText, 15),
               Weighted(md.copyright_page_text # EmptyText, 10),
               Weighted(md.full_text_sample # EmptyText, 10),
               Weighted(md.abstract_text # EmptyText, 5),
               Weighted(md.tables_content # EmptyText, 5),
               Weighted(md.ocr_used, 10), Weighted(md.enhanced_extraction, 5),
               Min((AllTextLen(all) * ScoreScale) \div 150, 15 * ScoreScale) >>
      [] variant = "Enhanced" ->
            << Weighted(md.pdf_title # "", 10), Weighted(md.pdf_author # "", 10),
               Weighted("isbn" \in md.found, 15), Weighted("year" \in md.found, 10),
               Weighted(md.first_page_text # EmptyText, 20),
               Weighted(md.title_page_text # EmptyText, 15),
               Weighted(md.copyright_page_text # EmptyText, 10),
               Weighted(md.full_text_sample # EmptyText, 10),
               (AllTextLen(all) * ScoreScale) \div 100 >>

\* sum(QualityFactors), without the clamp
QualityScoreUnclamped(md, all) == Sum(QualityFactors(md, all))

\* min(100, sum(QualityFactors))
QualityScore(md, all) == Min(100 * ScoreScale, Sum(QualityFactors(md, all)))

\* Whether the identifier patterns have a text to search at all.
Searchable(md, all) ==
    \/ AllTextLen(all) > 0
    \/ variant = "Protected" /\ md.copyright_page_text # EmptyText
    \/ variant = "Protected" /\ md.title_page_text # EmptyText

nonExtractVars == << Directory, run, pc, ProcessedFiles, UnprocessedFiles, FileIndex,
                     csv, csvExists, worker, abandoned, ProcessedCount, ErrorCount,
                     TimeoutCount, statVars, startLen, afterComplete, afterCrash, timedOutNow,
                     timedOutEarlier, raisedNow, iVars, hVars, tVars >>

XInit ==
    /\ xpc = "mupdf"
    /\ Metadata = NewMetadata
    /\ ErrorMessages = << >>
    /\ ExtractionMethods = << >>
    /\ AllExtractedText = << >>
    /\ TextQuality = 0
    /\ xraised = {}
    /\ produced = {}
    /\ plumberThread = {}

\* The machines a document is extracted on: one with tesseract, and those
\* without any OCR backend on which the extractor still gets constructed.
ExtractMachines == {TesseractOnly, NothingInstalled, TesseractBroken}
InitExtract ==
    /\ PipeInit({ << >> }) /\ XInit /\ IIdle
    /\ \E m \in ExtractMachines :
          /\ Constructs(variant, m)
          /\ Constructed(m)
          /\ m # TesseractOnly => Degraded
    /\ TIdle

\* The step's result becomes the locals of ExtractPDFMetadata.
Stored(x, nextpc) ==
    /\ Metadata' = x.md
    /\ AllExtractedText' = x.all
    /\ ExtractionMethods' = x.methods
    /\ ErrorMessages' = x.errors
    /\ xraised' = x.raised
    /\ produced' = produced \cup { f \in TextFields : x.md[f] # EmptyText }
    /\ xpc' = nextpc

Becomes(x, nextpc) ==
    Stored(x, nextpc) /\ UNCHANGED << variant, nonExtractVars, plumberThread >>

PDFMetadataSamples == { {}, {"title"}, {"title", "author"} }
\* pdf.metadata and PDFReader.metadata, as far as title and author go
PlumberMetadataSamples == { {}, {"title", "author"} }
TablesSamples == {120, 20001}

\* Method 1: PyMuPDF
ExtractWithPyMuPDF ==
    /\ xpc = "mupdf"
    /\ \E pages \in PageSeqs, meta \in PDFMetadataSamples, openFails \in BOOLEAN :
          /\ openFails => (pages = << >> /\ meta = {})
          /\ LET x == CASE variant = "Protected" -> PyMuPDFProtected(X, pages, meta, openFails)
                        [] variant = "GPU" -> PyMuPDFGPU(X, pages, meta, openFails)
                        [] variant = "Enhanced" -> PyMuPDFEnhanced(X, pages, meta, openFails)
             IN /\ Becomes(x, IF variant = "Enhanced" THEN "pypdf2" ELSE "plumber")
                /\ TextQuality' = IF variant = "Protected" THEN QualityOf(x.md) ELSE TextQuality

\* Method 2 of EnhancedPDFExtractor: PyPDF2, only when PyMuPDF left no first page
ExtractWithPyPDF2 ==
    /\ xpc = "pypdf2"
    /\ UNCHANGED TextQuality
    /\ IF Metadata.first_page_text = EmptyText
       THEN \E pages \in RereadSeqs, meta \in PlumberMetadataSamples, openFails \in BOOLEAN :
               /\ openFails => (pages = << >> /\ meta = {})
               /\ Becomes(PyPDF2Enhanced(X, pages, meta, openFails), "plumber")
       ELSE Becomes(X, "plumber")

\* Wrapper of TimeoutProtected gives up on Thread.join(20) and raises
\* TimeoutError; the daemon thread is not stopped.  A thread that had not
\* reached the loop over PDF.metadata by then (late) still has it ahead.
LeftBehind(late, meta) == IF late THEN meta ELSE {}

\* PDFPlumber
ExtractWithPlumber ==
    /\ xpc = "plumber"
    /\ CASE variant = "Protected" ->
              /\ UNCHANGED TextQuality
              /\ IF TextQuality < 500
                 THEN \E outcome \in {"tables", "none", "raise", "timeout"},
                         meta \in PlumberMetadataSamples, tablesLen \in TablesSamples,
                         late \in BOOLEAN :
                         /\ outcome # "tables" => tablesLen = 120
                         /\ late => (outcome = "timeout" /\ meta # {})
                         /\ Stored(PlumberProtected(X, outcome, IF late THEN {} ELSE meta,
                                                    tablesLen), "ocr")
                         /\ plumberThread' = LeftBehind(late, meta)
                         /\ UNCHANGED << variant, nonExtractVars >>
                 ELSE Becomes(X, "ocr")
         [] variant = "GPU" ->
              \E outcome \in {"tables", "none", "raise"},
                 meta \in PlumberMetadataSamples, tablesLen \in TablesSamples :
                 /\ outcome # "tables" => tablesLen = 120
                 /\ LET x == PlumberGPU(X, outcome, meta, tablesLen)
                    IN Becomes(x, "ocr") /\ TextQuality' = QualityOf(x.md)
         [] variant = "Enhanced" ->
              \E outcome \in {"text", "raise"}, meta \in PlumberMetadataSamples,
                 structLen \in {0, 20001}, tablesLen \in {0, 20001} :
                 /\ outcome = "raise" => (meta = {} /\ structLen = 0 /\ tablesLen = 0)
                 /\ structLen = 0 => (meta = {} /\ tablesLen = 0)
                 /\ LET x == PlumberEnhanced(X, outcome, meta, structLen, tablesLen)
                    IN Becomes(x, "ocr") /\ TextQuality' = QualityOf(x.md)

\* The pages an engine that is no backend ("CPU-Fallback") reads: no text.
BlankSeqs == { pages \in RereadSeqs : \A i \in 1..Len(pages) : pages[i] = BlankPage }

\* OCR, when the text found so far is sparse
ExtractWithOCR ==
    /\ xpc = "ocr"
    /\ UNCHANGED TextQuality
    /\ CASE variant = "Protected" ->
              IF TextQuality < 200
              THEN \E outcome \in {"pages", "raise", "timeout"},
                      pages \in IF Degraded THEN BlankSeqs ELSE RereadSeqs :
                      /\ outcome # "pages" => pages = << >>
                      /\ Becomes(OCRProtected(X, outcome, pages), "mine")
              ELSE Becomes(X, "mine")
         [] variant = "GPU" ->
              IF TextQuality < 200
              THEN \E outcome \in IF ActiveEngine = NoEngine THEN {"noengine"}
                                   ELSE {"pages", "raise"},
                      pages \in RereadSeqs :
                      /\ outcome # "pages" => pages = << >>
                      /\ Becomes(OCRGPU(X, outcome, pages), "mine")
              ELSE Becomes(X, "mine")
         [] variant = "Enhanced" ->
              IF TextQuality < 100 /\ OCRAvailable
              THEN \E pages \in RereadSeqs : Becomes(OCREnhanced(X, pages), "mine")
              ELSE Becomes(X, "mine")

\* Identifier mining, quality score, extraction_method and errors
MineAndScore ==
    /\ xpc = "mine"
    /\ UNCHANGED TextQuality
    /\ \E found \in FoundSamples :
          /\ (found # {}) => Searchable(Metadata, AllExtractedText)
          /\ LET md == [Metadata EXCEPT !.found = found]
             IN Becomes([X EXCEPT !.md = [md EXCEPT
                            !.extraction_quality_score = QualityScore(md, AllExtractedText),
                            !.extraction_method = ExtractionMethods,
                            !.errors = ErrorMessages]],
                        "done")

\* ProcessAllPDFs gives up on the document: Wrapper raises TimeoutError and
\* the record written is the placeholder.
TotalTimeout ==
    /\ variant = "Protected"
    /\ xpc \in {"mupdf", "plumber", "ocr", "mine"}
    /\ xpc' = "timeout"
    /\ UNCHANGED << variant, nonExtractVars, Metadata, AllExtractedText,
                    ExtractionMethods, ErrorMessages, xraised, produced, TextQuality,
                    plumberThread >>

\* The thread of ExtractWithPlumber that Wrapper gave up on goes through
\* PDF.metadata: Metadata is the dictionary of the enclosing call, which may
\* be at OCR, at the identifiers, or back in ProcessAllPDFs before AppendToCSV.
AbandonedPlumber ==
    /\ variant = "Protected"
    /\ plumberThread # {}
    /\ xpc \in {"ocr", "mine", "done"}
    /\ Metadata' = FillPDFMetadata(Metadata, plumberThread)
    /\ plumberThread' = {}
    /\ UNCHANGED << variant, nonExtractVars, xpc, ErrorMessages, ExtractionMethods,
                    AllExtractedText, TextQuality, xraised, produced >>

NextExtract ==
    \/ AbandonedPlumber
    \/ ExtractWithPyMuPDF
    \/ ExtractWithPyPDF2
    \/ ExtractWithPlumber
    \/ ExtractWithOCR
    \/ MineAndScore
    \/ TotalTimeout

SpecExtract == InitExtract /\ [][NextExtract]_vars

\* ===================================================================
\* Properties of ExtractPDFMetadata
\* ===================================================================
\* C7: in every record ExtractPDFMetadata returns, in each of the three
\* variants, every text-capture field (first_page_text, title_page_text,
\* copyright_page_text, table_of_contents, full_text_sample, abstract_text,
\* tables_content) is at most MAX_TEXT_LENGTH characters long.
\* HimalayaGPUExtractor's OCR accumulation ends every page with a blank it does
\* not count, so full_text_sample can be MAX_TEXT_LENGTH + 1 characters long.
C7_TextFieldsTruncated ==
    (xpc = "done") => \A f \in TextFields : Metadata[f].len <= MAX_TEXT_LENGTH

\* The record's score, and the placeholder's, in units of 1/ScoreScale.
RecordScore ==
    IF xpc = "timeout" THEN CorruptedMetadata(<< >>).extraction_quality_score * ScoreScale
    ELSE Metadata.extraction_quality_score

\* C8: every record, a normal result or the timeout placeholder, has
\* 0 <= extraction_quality_score <= 100, whichever fields are present and
\* however long the extracted text is; a sum above 100 is recorded as 100.
C8_ScoreBounds ==
    /\ []((xpc \in {"done", "timeout"}) =>
            (0 <= RecordScore /\ RecordScore <= 100 * ScoreScale))
    /\ []((xpc = "mine") =>
            \A found \in SUBSET Identifiers :
                LET score == QualityScore([Metadata EXCEPT !.found = found], AllExtractedText)
                IN 0 <= score /\ score <= 100 * ScoreScale)
    /\ [][(xpc = "mine" /\ xpc' = "done") =>
            Metadata'.extraction_quality_score =
                Min(100 * ScoreScale, QualityScoreUnclamped(Metadata', AllExtractedText'))]_vars

\* A record whose contributions add up to more than 100 and whose score is 100.
C8_Witness ==
    /\ xpc = "done"
    /\ QualityScoreUnclamped(Metadata, AllExtractedText) > 100 * ScoreScale
    /\ Metadata.extraction_quality_score = 100 * ScoreScale

\* C9: whenever PyMuPDF or PDFPlumber raised while the document was processed,
\* the record's errors field has an entry naming that method.  (OCR failures,
\* which every variant only prints, are left out of the statement.)
\* In the Protected variant an exception of pdfplumber never leaves the
\* TimeoutProtected thread: Wrapper returns None and nothing is logged.
C9_FailuresLogged ==
    (xpc = "done") =>
        \A m \in xraised \cap {"PyMuPDF", "PDFPlumber"} : m \in Range(Metadata.errors)

\* ===================================================================
\* Identifier mining, identifier by identifier (Protected variant)
\* ===================================================================
\* The strings the patterns capture in the documents looked at.
ISBNTokens == { << "0", "-", "3", "0", "6", "-", "4", "0", "6", "1", "5", "-", "x" >>,
                << "9", "7", "8", "0", "3", "0", "6", "4", "0", "6", "1", "5", "7" >>,
                << "1", "2", "3", "4", "5" >> }
ISBNLongTokens == { << "9", "7", "8", "0", "3", "0", "6", "4", "0", "6", "1", "5", "7", "9" >> }
ISBNThirteenX == << "9", "7", "8", "0", "3", "0", "6", "4", "0", "6", "1", "5", "x" >>
ISBNHyphenated == << "9", "7", "8", "-", "0", "-", "1", "3", "-", "4", "6", "8", "5", "9", "9", "-", "1" >>
LCCNTokens == { << "2", "0", "0", "1", "-", "0", "1", "2", "3", "4", "5" >>,
                << "8", "5", "1", "2", "3", "4", "5", "6" >> }
ISSNTokens == { << "1", "2", "3", "4", "-", "5", "6", "7", "8" >>,
                << "8", "7", "6", "5", "4", "3", "2", "1" >> }
OCLCTokens == { << "1", "2", "3", "4", "5", "6", "7", "8" >>,
                << "9", "8", "7", "6", "5", "4", "3", "2", "1" >> }
DOITokens == { << "1", "0", ".", "1", "/", "a" >>,
               << "1", "0", ".", "2", "/", "b" >> }
EditionTokens == { << "2" >>, << "t", "h", "i", "r", "d" >> }

\* Texts in which the patterns capture these strings: nothing, one string,
\* two strings under one pattern, two strings under two patterns.
TextsWith(tokens, single) ==
    { EmptyString, Found(<< >>) }
    \cup { Found(<< << a >> >>) : a \in tokens \cup single }
    \cup { Found(<< << p[1], p[2] >> >>) : p \in { q \in tokens \X tokens : q[1] # q[2] } }
    \cup { Found(<< << p[1] >>, << p[2] >> >>) : p \in { q \in tokens \X tokens : q[1] # q[2] } }

\* Texts in which the patterns capture nothing or one of these strings.
TextsWithOne(tokens) ==
    { EmptyString, Found(<< >>) } \cup { Found(<< << a >> >>) : a \in tokens }

InitIdent ==
    /\ PipeInit({ << >> })
    /\ variant = "Protected"
    /\ XIdle
    /\ HIdle
    /\ ipc = "isbn"
    /\ MatchedTexts = NoTexts
    /\ Extracted = NoneExtracted

\* One of the loops "for Text, Priority in SearchTexts" of ExtractPDFMetadata.
MineStep(kind, samples, nextpc) ==
    /\ \E c \in samples, t \in samples, g \in samples :
          LET texts == [kind |-> kind, copyright |-> c, title |-> t, general |-> g]
          IN /\ MatchedTexts' = texts
             /\ Extracted' = [Extracted EXCEPT ![kind] = Mined(kind, texts)]
    /\ ipc' = nextpc
    /\ UNCHANGED << pipeVars, xVars, hVars, tVars >>

MineISBN == ipc = "isbn" /\ MineStep("isbn", TextsWith(ISBNTokens, ISBNLongTokens \cup {ISBNHyphenated, ISBNThirteenX}), "lccn")
MineLCCN == ipc = "lccn" /\ MineStep("lccn", TextsWithOne(LCCNTokens), "issn")
MineISSN == ipc = "issn" /\ MineStep("issn", TextsWithOne(ISSNTokens), "oclc")
MineOCLC == ipc = "oclc" /\ MineStep("oclc", TextsWithOne(OCLCTokens), "doi")
MineDOI == ipc = "doi" /\ MineStep("doi", TextsWithOne(DOITokens), "edition")
MineEdition == ipc = "edition" /\ MineStep("edition", TextsWithOne(EditionTokens), "done")

NextIdent ==
    \/ MineISBN
    \/ MineLCCN
    \/ MineISSN
    \/ MineOCLC
    \/ MineDOI
    \/ MineEdition

SpecIdent == InitIdent /\ [][NextIdent]_vars

\* The validated form of one captured string, << >> when it is not valid.
Validated(kind, m) ==
    CASE kind = "isbn" -> ValidateISBN(m)
      [] kind = "lccn" -> ValidateLCCN(m)
      [] kind = "issn" -> CleanedISSN(Strip(m))
      [] kind = "oclc" -> AcceptedOCLC(Strip(m))
      [] kind = "doi" -> Strip(m)
      [] kind = "edition" -> Strip(m)

\* The validated matches a text holds for the identifier mined last.
ValidIn(text) ==
    IF text.empty THEN {}
    ELSE { Validated(MatchedTexts.kind, m) : m \in Range(Flatten(text.matches)) } \ { << >> }

\* C10: for each of ISBN, LCCN, ISSN, OCLC, DOI and edition the recorded value
\* is a validated match of the first of copyright-page text, title-page text
\* and general text that holds one, and is empty when none of them does.
C10_IdentifierPriority ==
    (MatchedTexts.kind # "none") =>
        LET value == Extracted[MatchedTexts.kind]
        IN IF ValidIn(MatchedTexts.copyright) # {} THEN value \in ValidIn(MatchedTexts.copyright)
           ELSE IF ValidIn(MatchedTexts.title) # {} THEN value \in ValidIn(MatchedTexts.title)
           ELSE IF ValidIn(MatchedTexts.general) # {} THEN value \in ValidIn(MatchedTexts.general)
           ELSE value = << >>

\* The copyright-page text and the general text hold different valid ISBNs,
\* and extracted_isbn is the one of the copyright page.
C10_Witness ==
    /\ MatchedTexts.kind = "isbn"
    /\ ValidIn(MatchedTexts.copyright) # {}
    /\ ValidIn(MatchedTexts.general) # {}
    /\ ValidIn(MatchedTexts.copyright) \cap ValidIn(MatchedTexts.general) = {}
    /\ Extracted.isbn \in ValidIn(MatchedTexts.copyright)

\* The strings the ISBN patterns captured in the three texts searched.
ISBNCandidates ==
    IF MatchedTexts.kind # "isbn" THEN {}
    ELSE UNION { Range(Flatten(t.matches)) :
                 t \in { u \in {MatchedTexts.copyright, MatchedTexts.title, MatchedTexts.general} :
                          ~u.empty } }

IsSubstring(v, c) == \E i \in 1..(Len(c) - Len(v) + 1) : SubSeq(c, i, i + Len(v) - 1) = v

YearToken(adjacent, year) == [adjacent |-> adjacent, year |-> year]
YearTokens == { YearToken(TRUE, << "1", "9", "9", "8" >>),
                YearToken(FALSE, << "2", "0", "1", "0" >>),
                YearToken(TRUE, << "1", "8", "5", "0" >>),
                YearToken(FALSE, << "1", "9", "9", "8" >>) }
MaxYearTokens == 2
YearTexts ==
    { [empty |-> TRUE, tokens |-> << >>] }
    \cup { [empty |-> FALSE, tokens |-> t] :
           t \in { u \in SeqsUpTo(YearTokens, MaxYearTokens) : NoRepeat(u) } }

\* int(Year) and str(YearInt)
DigitValue(c) == CHOOSE n \in 0..9 : << "0", "1", "2", "3", "4", "5", "6", "7", "8", "9" >>[n + 1] = c
DigitChar(n) == << "0", "1", "2", "3", "4", "5", "6", "7", "8", "9" >>[n + 1]
RECURSIVE ToInt(_)
ToInt(str) ==
    IF str = << >> THEN 0 ELSE 10 * ToInt(SubSeq(str, 1, Len(str) - 1)) + DigitValue(str[Len(str)])
RECURSIVE ToStr(_)
ToStr(n) == IF n < 10 THEN << DigitChar(n) >> ELSE ToStr(n \div 10) \o << DigitChar(n % 10) >>

\* \b(19\d{2}|20[0-2]\d)\b
IsGeneralYear(str) ==
    \/ str[1] = "1" /\ str[2] = "9"
    \/ str[1] = "2" /\ str[2] = "0" /\ str[3] \in {"0", "1", "2"}

\* YEAR_PATTERNS[i].findall(Text): the first pattern finds the years after a
\* copyright sign, the last one every year of the two centuries; the texts
\* looked at hold nothing for the patterns in between.
YearsOf(tokens) == [i \in 1..Len(tokens) |-> tokens[i].year]
YEAR_PATTERNS(text) ==
    << YearsOf(SelectSeq(text.tokens, LAMBDA t : t.adjacent)),
       << >>, << >>, << >>, << >>,
       YearsOf(SelectSeq(text.tokens, LAMBDA t : IsGeneralYear(t.year))) >>

\* The (YearInt, Priority) pairs one text adds to YearCandidates.
CandidatesOf(text, Priority) ==
    IF text.empty THEN << >>
    ELSE LET Years == Flatten(YEAR_PATTERNS(text))
             kept == SelectSeq(Years, LAMBDA y : 1900 <= ToInt(y) /\ ToInt(y) <= 2030)
         IN [i \in 1..Len(kept) |-> << ToInt(kept[i]), Priority >>]

YearCandidates(texts) ==
    CandidatesOf(texts.copyright, 3) \o CandidatesOf(texts.title, 2)
        \o CandidatesOf(texts.general, 1)

\* sort(key=lambda x: (x[1], x[0]), reverse=True), then the first element
SortsBefore(a, b) == a[2] > b[2] \/ (a[2] = b[2] /\ a[1] >= b[1])
ExtractedYear(texts) ==
    LET c == Range(YearCandidates(texts))
    IN IF c = {} THEN << >>
       ELSE ToStr((CHOOSE a \in c : \A b \in c : SortsBefore(a, b))[1])

InitYear ==
    /\ PipeInit({ << >> })
    /\ variant = "Protected"
    /\ XIdle
    /\ HIdle
    /\ ipc = "year"
    /\ MatchedTexts = NoTexts
    /\ Extracted = NoneExtracted

MineYear ==
    /\ ipc = "year"
    /\ \E c \in YearTexts, t \in YearTexts, g \in YearTexts :
          LET texts == [kind |-> "year", copyright |-> c, title |-> t, general |-> g]
          IN /\ MatchedTexts' = texts
             /\ Extracted' = [Extracted EXCEPT !.year = ExtractedYear(texts)]
    /\ ipc' = "publisher"
    /\ UNCHANGED << pipeVars, xVars, hVars, tVars >>

NextYear == MineYear

SpecYear == InitYear /\ [][NextYear]_vars

\* The searched texts that hold this number, after a copyright sign or bare.
Holding(adjacent, year) ==
    { t \in {MatchedTexts.copyright, MatchedTexts.title, MatchedTexts.general} :
        ~t.empty /\ YearToken(adjacent, year) \in Range(t.tokens) }

\* C12: when the searched texts hold a 1998 after a copyright sign and a bare
\* 2010, in one text or in two, extracted_year is 1998.  (The texts looked at
\* hold no other year after a copyright sign that could be a candidate.)
C12_CopyrightYearOutranks ==
    (/\ MatchedTexts.kind = "year"
     /\ Holding(TRUE, << "1", "9", "9", "8" >>) # {}
     /\ Holding(FALSE, << "2", "0", "1", "0" >>) # {})
        => Extracted.year = << "1", "9", "9", "8" >>

\* The OCR methods a record can name in extraction_method.
OCRMethods == {"HimalayaOCR", "OCR"}

\* C13: on a machine with an OCR backend, a document whose first-page,
\* title-page and copyright-page texts hold fewer than 100 characters after
\* the structured extractors gets a record with ocr_used = true, and one for
\* which they hold 500 characters or more gets no OCR and ocr_used = false.
C13_OCRTrigger ==
    (xpc = "done") =>
        /\ (TextQuality < 100 /\ ~Degraded) => Metadata.ocr_used
        /\ TextQuality >= 500 =>
              (~Metadata.ocr_used /\ Range(Metadata.extraction_method) \cap OCRMethods = {})

\* C14 (EnhancedPDFExtractor): a text field that some method left non-empty
\* when it ran is non-empty in the finished record; first_page_text, which
\* PyPDF2 fills when PyMuPDF left it empty, is one of them.
C14_FallbackCoverage ==
    (variant = "Enhanced" /\ xpc = "done") =>
        \A f \in produced : Metadata[f] # EmptyText

\* ===================================================================
\* OCR of the pages of a document by the hardware manager
\* ===================================================================
MaxOCRPages == 2

\* fallback_order, in the names ActiveEngine takes in each variant
FallbackOrder(v) ==
    IF v = "GPU" THEN << "EasyOCR_GPU", "PaddleOCR_GPU", "Tesseract_CPU" >>
    ELSE << "EasyOCR-GPU", "Tesseract-CPU" >>

\* The engines the manager found at start-up, in those names.
Usable ==
    IF variant = "GPU" THEN OCREngines
    ELSE { e \in {"EasyOCR-GPU", "Tesseract-CPU"} :
             \/ e = "EasyOCR-GPU" /\ "EasyOCR" \in OCREngines /\ CUDA_Available
             \/ e = "Tesseract-CPU" /\ "TesseractCPU" \in OCREngines }

\* Engines that were only imported at start-up and raise whenever used.
AlwaysFailing ==
    IF variant = "GPU" THEN {}
    ELSE { e \in Usable : \/ e = "EasyOCR-GPU" /\ Probes["easyocr"] = "broken"
                          \/ e = "Tesseract-CPU" /\ Probes["pytesseract"] = "broken" }

IndexIn(order, e) ==
    IF e \in Range(order) THEN CHOOSE i \in 1..Len(order) : order[i] = e ELSE 0

\* FallbackToNextEngine from position i of fallback_order: the text returned
\* (named by the engine that read it, "" for no text) and self.ActiveEngine.
RECURSIVE FallbackToNextEngine(_, _, _, _, _)
FallbackToNextEngine(order, i, engines, fails, active) ==
    IF i > Len(order) THEN [text |-> "", ActiveEngine |-> active]
    ELSE IF order[i] \notin engines
         THEN FallbackToNextEngine(order, i + 1, engines, fails, active)
    ELSE IF order[i] \notin fails THEN [text |-> order[i], ActiveEngine |-> order[i]]
    ELSE FallbackToNextEngine(order, i + 1, engines, fails, order[i])

\* ProcessImageWithOptimalEngine on one page image; fails are the engines that
\* raise on it.
ProcessImageWithOptimalEngine(v, engines, active, fails) ==
    IF v = "GPU"
    THEN IF active = NoEngine \/ active \notin Range(FallbackOrder(v))
         THEN [text |-> "", ActiveEngine |-> active]
         ELSE IF active \notin fails THEN [text |-> active, ActiveEngine |-> active]
         ELSE FallbackToNextEngine(FallbackOrder(v), IndexIn(FallbackOrder(v), active) + 1,
                                   engines, fails, active)
    ELSE IF active \in {"EasyOCR-GPU", "Tesseract-CPU"} /\ active \notin fails
         THEN [text |-> active, ActiveEngine |-> active]
         ELSE [text |-> "", ActiveEngine |-> active]

\* The engine objects ProcessImageWithOptimalEngine constructs for one page:
\* HimalayaGPUExtractor_Protected calls easyocr.Reader(['en'], gpu=True) inside
\* it; HimalayaGPUExtractor uses the objects InitializeOCREngines made.
Allocates(v, active) ==
    IF v = "Protected" /\ active = "EasyOCR-GPU" THEN {"easyocr.Reader"} ELSE {}

InitOCR ==
    /\ PipeInit({ << >> })
    /\ variant \in {"GPU", "Protected"}
    /\ XIdle /\ IIdle
    /\ \E m \in Machines : Constructs(variant, m) /\ Constructed(m)
    /\ TIdle

\* One turn of the page loop of ExtractTextWithHimalayaOCR.
OCRPage ==
    /\ hpc = "ready"
    /\ Len(PageLog) < MaxOCRPages
    /\ \E fails \in SUBSET Usable :
          /\ AlwaysFailing \subseteq fails
          /\ LET r == ProcessImageWithOptimalEngine(variant, Usable, ActiveEngine, fails)
             IN /\ PageLog' = Append(PageLog, [active |-> ActiveEngine, fails |-> fails,
                                               text |-> r.text,
                                               allocated |-> Allocates(variant, ActiveEngine)])
                /\ ActiveEngine' = r.ActiveEngine
    /\ UNCHANGED << pipeVars, xVars, iVars, tVars, hpc, Probes, CUDA_Available,
                    OCREngines, OCRAvailable >>

NextOCR == OCRPage

SpecOCR == InitOCR /\ [][NextOCR]_vars

\* The engines still to try for a page, in priority order: the active one and
\* the usable ones after it.
Remaining(active) ==
    LET order == FallbackOrder(variant)
    IN SelectSeq(order, LAMBDA e : e \in Usable /\ IndexIn(order, e) >= IndexIn(order, active))

\* C15: a page's text is the output of the first engine, from the active one
\* on in priority order, that does not raise on the page; it is empty only
\* when every one of them raises; and every page of the document is read.
C15_EngineFallback ==
    \A i \in 1..Len(PageLog) :
        LET page == PageLog[i]
            ok == SelectSeq(Remaining(page.active), LAMBDA e : e \notin page.fails)
        IN page.active \in Usable =>
              page.text = IF ok = << >> THEN "" ELSE Head(ok)

\* C16: in both Himalaya variants, on a machine without an OCR backend (the
\* selector answers None, or 'CPU-Fallback'), a finished record has
\* ocr_used = false, names no OCR method in extraction_method, and has the
\* quality score of a record without the OCR bonus.
C16_DegradedMode ==
    (xpc = "done" /\ variant \in {"GPU", "Protected"} /\ Degraded) =>
        /\ ~Metadata.ocr_used
        /\ Range(Metadata.extraction_method) \cap OCRMethods = {}
        /\ Metadata.extraction_quality_score =
              QualityScore([Metadata EXCEPT !.ocr_used = FALSE], AllExtractedText)

\* ===================================================================
\* Start-up, step by step
\* ===================================================================
InitStartup ==
    /\ PipeInit({ << >> })
    /\ XIdle /\ IIdle
    /\ hpc = "load"
    /\ Probes \in Machines
    /\ CUDA_Available = FALSE
    /\ OCREngines = {}
    /\ ActiveEngine = NoEngine
    /\ OCRAvailable = FALSE
    /\ PageLog = << >>
    /\ TIdle

StartupStep(nextpc) ==
    /\ hpc' = nextpc
    /\ UNCHANGED << pipeVars, xVars, iVars, tVars, Probes, PageLog >>

\* The imports at the top of the module.
LoadModule ==
    /\ hpc = "load"
    /\ StartupStep(IF LoadRaises(variant, Probes) THEN "load_failed" ELSE "main")
    /\ UNCHANGED << CUDA_Available, OCREngines, ActiveEngine, OCRAvailable >>

\* __main__ up to the construction of the extractor: exit(1), a traceback, or on.
DependencyCheck ==
    /\ hpc = "main"
    /\ StartupStep(CASE MainCheck(variant, Probes) = "exit" -> "exit"
                     [] MainCheck(variant, Probes) = "raise" -> "main_failed"
                     [] MainCheck(variant, Probes) = "go" ->
                           IF variant = "Enhanced" THEN "verify" ELSE "detect")
    /\ UNCHANGED << CUDA_Available, OCREngines, ActiveEngine, OCRAvailable >>

\* self.GPUCapabilities = self.DetectGPUCapabilities()
DetectGPU ==
    /\ hpc = "detect"
    /\ LET r == DetectGPUCapabilities(variant, Probes)
       IN /\ StartupStep(IF r.raises THEN "detect_failed" ELSE "engines")
          /\ CUDA_Available' = IF r.raises THEN CUDA_Available ELSE r.CUDA_Available
    /\ UNCHANGED << OCREngines, ActiveEngine, OCRAvailable >>

\* self.OCREngines = self.InitializeOCREngines()
InitEngines ==
    /\ hpc = "engines"
    /\ LET r == InitializeOCREngines(variant, Probes, CUDA_Available)
       IN /\ StartupStep(IF r.raises THEN "engines_failed" ELSE "select")
          /\ OCREngines' = IF r.raises THEN OCREngines ELSE r.Engines
    /\ UNCHANGED << CUDA_Available, ActiveEngine, OCRAvailable >>

\* self.ActiveEngine = self.SelectOptimalEngine(); the extractor is constructed
\* and ProcessAllPDFs is called.
SelectEngine ==
    /\ hpc = "select"
    /\ StartupStep("ready")
    /\ ActiveEngine' = SelectOptimalEngine(variant, OCREngines, CUDA_Available)
    /\ UNCHANGED << CUDA_Available, OCREngines, OCRAvailable >>

\* EnhancedPDFExtractor.__init__: self.VerifyOCRSetup(), then ProcessRemainingPDFs
VerifyOCR ==
    /\ hpc = "verify"
    /\ StartupStep("ready")
    /\ OCRAvailable' = VerifyOCRSetup(Probes)
    /\ UNCHANGED << CUDA_Available, OCREngines, ActiveEngine >>

NextStartup ==
    \/ LoadModule
    \/ DependencyCheck
    \/ DetectGPU
    \/ InitEngines
    \/ SelectEngine
    \/ VerifyOCR

SpecStartup == InitStartup /\ [][NextStartup]_vars

\* Start-up ended before the batch loop was entered.
Prevented == hpc \in {"exit", "load_failed", "main_failed", "detect_failed", "engines_failed"}

\* A machine on which no OCR engine can be had, and on which nothing goes
\* wrong otherwise (no import raises anything but ImportError).
NoOCRMachine ==
    /\ \A p \in {"easyocr", "paddleocr", "pytesseract"} : Probes[p] \in {"missing", "broken"}
    /\ Probes["torch"] \in {"ok", "nocuda", "missing"}

\* C17: on a machine without any OCR engine start-up never ends before the
\* batch loop: the program neither exits nor stops with a traceback.
C17_RunsWithoutOCR == NoOCRMachine => ~Prevented

\* C18: DetectGPUCapabilities and InitializeOCREngines never raise, whatever
\* a probe does, and a capability whose probe failed is recorded as
\* unavailable once the hardware manager is constructed.
C18_DetectionNeverThrows ==
    /\ hpc \notin {"detect_failed", "engines_failed"}
    /\ (hpc = "ready" /\ variant # "Enhanced") =>
          /\ CUDA_Available => Probes["torch"] = "ok"
          /\ \A e \in Usable :
                \/ e \in {"EasyOCR_GPU", "EasyOCR-GPU"} /\ Imports(Probes["easyocr"])
                \/ e = "PaddleOCR_GPU" /\ Imports(Probes["paddleocr"])
                \/ e \in {"Tesseract_CPU", "Tesseract-CPU"} /\ Imports(Probes["pytesseract"])

\* ===================================================================
\* The PyMuPDF step of HimalayaGPUExtractor_Protected, page by page
\* ===================================================================
\* PDFTimeout.__enter__ starts a threading.Timer; when it expires,
\* _TimeoutHandler runs in the timer's own thread and raises TimeoutError
\* there; __exit__ cancels the timer.
InitPages ==
    /\ PipeInit({ << >> })
    /\ variant = "Protected"
    /\ XInit /\ IIdle
    /\ Constructed(TesseractOnly)
    /\ DocPages \in PageSeqs
    /\ PageNum = 0
    /\ Timers = NoTimers
    /\ overBudget = {}

TextToProcess == Min(MAX_PAGES_TO_PROCESS_PROTECTED, Len(DocPages))

PageStep(x, nextpc) ==
    /\ Stored(x, nextpc)
    /\ UNCHANGED << pipeVars, iVars, hVars, TextQuality, DocPages, plumberThread >>

\* with PDFTimeout(PDF_OPEN_TIMEOUT, ...): Doc = fitz.open(...), Doc.metadata
OpenDocument ==
    /\ xpc = "mupdf"
    /\ Timers.open = "none"
    /\ \E openFails \in BOOLEAN :
          IF openFails
          THEN PageStep(Raised(Log(X, "PyMuPDF"), "PyMuPDF"), "plumber") /\ UNCHANGED Timers
          ELSE PageStep(X, "page") /\ Timers' = [Timers EXCEPT !.open = "armed"]
    /\ UNCHANGED << PageNum, overBudget >>

\* with PDFTimeout(PAGE_PROCESS_TIMEOUT, ...):
EnterPage ==
    /\ xpc = "page"
    /\ PageNum < TextToProcess
    /\ PageStep(X, "reading")
    /\ Timers' = [Timers EXCEPT !.page = "armed"]
    /\ UNCHANGED << PageNum, overBudget >>

\* A timer expires: its thread raises TimeoutError and ends.
TimerFires ==
    /\ xpc \in {"page", "reading"}
    /\ \E t \in {"open", "page"} :
          /\ Timers[t] = "armed"
          /\ Timers' = [Timers EXCEPT ![t] = "fired"]
          /\ overBudget' = IF t = "page" THEN overBudget \cup {PageNum + 1} ELSE overBudget
    /\ UNCHANGED << pipeVars, xVars, iVars, hVars, DocPages, PageNum >>

\* The body of the page block: Page.get_text() and the classification of the
\* text; an exception leaves both blocks and reaches the handler of the step.
ReadPage ==
    /\ xpc = "reading"
    /\ LET i == PageNum + 1
       IN IF DocPages[i].raises
          THEN /\ PageStep(Raised(Log(X, "PyMuPDF"), "PyMuPDF"), "plumber")
               /\ Timers' = NoTimers
               /\ UNCHANGED PageNum
          ELSE /\ PageStep([X EXCEPT !.md = PagesProtected(@, SubSeq(DocPages, 1, i), i),
                                     !.all = Append(@, DocPages[i].len)],
                           "page")
               /\ Timers' = [Timers EXCEPT !.page = "none"]
               /\ PageNum' = i
    /\ UNCHANGED overBudget

\* After the loop: full_text_sample, ExtractionMethods.append('PyMuPDF'), Doc.close()
ClosePages ==
    /\ xpc = "page"
    /\ PageNum = TextToProcess
    /\ PageStep(Method([X EXCEPT !.md.full_text_sample =
                            IF AllExtractedText # << >>
                            THEN Text(Min(JoinLen(AllExtractedText), MAX_TEXT_LENGTH), 0)
                            ELSE @],
                       "PyMuPDF"),
                "plumber")
    /\ Timers' = NoTimers
    /\ UNCHANGED << PageNum, overBudget >>

NextPages ==
    \/ OpenDocument
    \/ EnterPage
    \/ TimerFires
    \/ ReadPage
    \/ ClosePages

SpecPages == InitPages /\ [][NextPages]_vars

\* C19: a page whose processing outlasted the page budget contributes
\* nothing: no field holds its text and its text is not among the texts
\* collected for the full-text sample, while the other pages are read.
C19_PageTimeout ==
    /\ \A n \in overBudget : n <= PageNum => \A f \in TextFields : Metadata[f].pg # n
    /\ (xpc = "plumber" /\ xraised = {}) =>
          Len(AllExtractedText) = TextToProcess - Cardinality(overBudget)

\* Taken in one step or page by page, the PyMuPDF step gives the same record.
PagesAgree ==
    (xpc = "plumber") =>
        LET x == PyMuPDFProtected([md |-> NewMetadata, all |-> << >>, methods |-> << >>,
                                   errors |-> << >>, raised |-> {}],
                                  DocPages, {}, ErrorMessages # << >> /\ PageNum = 0
                                                /\ (DocPages = << >> \/ ~DocPages[1].raises))
        IN Metadata = x.md /\ AllExtractedText = x.all /\ ExtractionMethods = x.methods

\* C20: whenever the TimeoutProtected wrapper returns to its caller, the
\* wrapped function has returned and the value is the function's own; a call
\* whose function raised does not return (and so never returns None).
C20_WrapperOutcome ==
    [][JoinFinished => (Current \notin raisedNow /\ worker.result # None)]_vars

\* ===================================================================
\* The shape of a validated ISBN
\* ===================================================================
\* C30: whatever ValidateISBN returns is '' or a normalized ISBN (9 digits and
\* a digit or X, or 13 digits; no separators, upper case); validating the
\* result again gives the result; and so a non-empty extracted_isbn has this
\* shape.
C30_ISBNShape ==
    /\ \A m \in ISBNCandidates :
          LET v == ValidateISBN(m)
          IN /\ v = << >> \/ IsISBN10(v) \/ IsISBN13(v)
             /\ ValidateISBN(v) = v
    /\ Extracted.isbn # << >> => (IsISBN10(Extracted.isbn) \/ IsISBN13(Extracted.isbn))

\* A candidate written with hyphens and a lower-case check character was
\* accepted, and the ISBN recorded is its normalized form.
C30_Witness ==
    \E m \in ISBNCandidates :
        /\ "-" \in Range(m)
        /\ "x" \in Range(m)
        /\ ValidateISBN(m) # << >>
        /\ Extracted.isbn = ValidateISBN(m)
        /\ Extracted.isbn[Len(Extracted.isbn)] = "X"

\* ===================================================================
\* The active engine of HimalayaGPUExtractor
\* ===================================================================
\* The first engine of the priority order that start-up initialized.
FirstAvailable ==
    LET avail == SelectSeq(FallbackOrder("GPU"), LAMBDA e : e \in OCREngines)
    IN IF avail = << >> THEN NoEngine ELSE Head(avail)

Priority(e) == IndexIn(FallbackOrder("GPU"), e)

\* C29: in HimalayaGPUExtractor ActiveEngine is None or an engine that was
\* initialized; before any page it is the first available engine of the order
\* EasyOCR_GPU > PaddleOCR_GPU > Tesseract_CPU; it changes only on a page on
\* which the active engine raised, and then to an engine of strictly lower
\* priority; and a page is never read by an engine of higher priority than
\* the one that was active.
C29_ActiveEngine ==
    /\ [](variant = "GPU" =>
            /\ ActiveEngine \in OCREngines \cup {NoEngine}
            /\ PageLog = << >> => ActiveEngine = FirstAvailable)
    /\ [][(variant = "GPU" /\ PageLog' # PageLog) =>
            LET page == PageLog'[Len(PageLog')]
            IN /\ page.active = ActiveEngine
               /\ ActiveEngine' # ActiveEngine =>
                     /\ ActiveEngine \in page.fails
                     /\ Priority(ActiveEngine') > Priority(ActiveEngine)
               /\ page.text # "" =>
                     /\ page.text \in OCREngines
                     /\ Priority(page.text) >= Priority(ActiveEngine)
                     /\ page.text # ActiveEngine => ActiveEngine \in page.fails]_vars

\* EasyOCR raised on the first page, PaddleOCR was tried and raised too, and
\* Tesseract read the page and is now the active engine.
C29_Witness ==
    /\ variant = "GPU"
    /\ OCREngines = {"EasyOCR_GPU", "PaddleOCR_GPU", "Tesseract_CPU"}
    /\ Len(PageLog) >= 1
    /\ PageLog[1].active = "EasyOCR_GPU"
    /\ PageLog[1].fails = {"EasyOCR_GPU", "PaddleOCR_GPU"}
    /\ PageLog[1].text = "Tesseract_CPU"
    /\ ActiveEngine = "Tesseract_CPU"

\* ===================================================================
\* Engine objects
\* ===================================================================
\* C28: OCR engine objects are made once, at start-up: sending a page to OCR
\* constructs no engine object, so their number does not grow with the pages
\* and documents processed.
C28_AllocatedOnce == \A i \in 1..Len(PageLog) : PageLog[i].allocated = {}

\* ===================================================================
\* The ledger round trip
\* ===================================================================
\* C24: in HimalayaGPUExtractor_Protected, for every record the output held
\* when the run started, the set LoadExistingData computed holds the stem of
\* the record's file name, and so the run's list of unprocessed files holds
\* no file that has a record.
C24_LedgerRoundTrip ==
    (variant = "Protected" /\ run >= 1) =>
        \A i \in 1..startLen :
            csv[i].kind = "row" =>
                /\ Stem(csv[i].filename) \in ProcessedFiles
                /\ csv[i].filename \notin Range(UnprocessedFiles)

\* ===================================================================
\* The secondary extractor of EnhancedPDFExtractor
\* ===================================================================
\* C25: the PyPDF2 step does something only when PyMuPDF left first_page_text
\* empty, and then it only fills gaps: a text field, a title or an author
\* that was not empty before the step has the same value after it.
C25_SecondaryFillsGaps ==
    [][(xpc = "pypdf2" /\ xpc' = "plumber") =>
          /\ (Metadata' # Metadata \/ ExtractionMethods' # ExtractionMethods
                 \/ ErrorMessages' # ErrorMessages) =>
                Metadata.first_page_text = EmptyText
          /\ \A f \in TextFields : Metadata[f] # EmptyText => Metadata'[f] = Metadata[f]
          /\ Metadata.pdf_title # "" => Metadata'.pdf_title = Metadata.pdf_title
          /\ Metadata.pdf_author # "" => Metadata'.pdf_author = Metadata.pdf_author]_vars

\* ===================================================================
\* Page classification: the PyMuPDF step on a document whose pages are known
\* ===================================================================
MaxScanPages == 3

\* Pages with and without the words the classification looks for, two of them
\* longer than MAX_TEXT_LENGTH.
ClassifySamples ==
    { Page(0, FALSE, FALSE, FALSE, FALSE),
      Page(150, TRUE, FALSE, FALSE, FALSE),
      Page(300, TRUE, TRUE, FALSE, FALSE),
      Page(600, FALSE, TRUE, FALSE, FALSE),
      Page(20001, FALSE, TRUE, FALSE, FALSE),
      Page(25000, FALSE, TRUE, FALSE, FALSE),
      FailingPage }

InitClassify ==
    /\ PipeInit({ << >> })
    /\ XInit /\ IIdle
    /\ Constructed(TesseractOnly)
    /\ DocPages \in AllSeqs(ClassifySamples, MaxScanPages)
    /\ PageNum = 0
    /\ Timers = NoTimers
    /\ overBudget = {}

\* Method 1 (PyMuPDF) of ExtractPDFMetadata on the pages of the document.
ClassifyPages ==
    /\ xpc = "mupdf"
    /\ \E meta \in PDFMetadataSamples :
          LET x == CASE variant = "Protected" -> PyMuPDFProtected(X, DocPages, meta, FALSE)
                     [] variant = "GPU" -> PyMuPDFGPU(X, DocPages, meta, FALSE)
                     [] variant = "Enhanced" -> PyMuPDFEnhanced(X, DocPages, meta, FALSE)
          IN /\ Stored(x, IF variant = "Enhanced" THEN "pypdf2" ELSE "plumber")
             /\ TextQuality' = IF variant = "Protected" THEN QualityOf(x.md) ELSE TextQuality
    /\ UNCHANGED << pipeVars, iVars, hVars, tVars, plumberThread >>

NextClassify == ClassifyPages

SpecClassify == InitClassify /\ [][NextClassify]_vars

\* The pages the step read: in HimalayaGPUExtractor_Protected those before the
\* first page that raises, in the other two every page that does not raise.
WasRead(i) ==
    /\ ~DocPages[i].raises
    /\ variant = "Protected" => \A j \in 1..i : ~DocPages[j].raises

CopyrightPages == { i \in 1..Len(DocPages) : WasRead(i) /\ DocPages[i].copyright }
ContentsPages == { i \in 1..Len(DocPages) : WasRead(i) /\ DocPages[i].toc }

\* C26: after the step, copyright_page_text is the text of the first page
\* read that holds 'copyright' or the copyright sign; a later such page does
\* not replace it.
C26_FirstCopyrightPage ==
    (xpc # "mupdf" /\ CopyrightPages # {}) =>
        \A i \in CopyrightPages :
            (\A j \in CopyrightPages : i <= j) =>
                Metadata.copyright_page_text = Cut(PageText(DocPages, i), MAX_TEXT_LENGTH)

\* C27: after the step, table_of_contents is the text of a longest page among
\* the pages read that hold a table-of-contents keyword, whatever the lengths.
C27_LongestContentsPage ==
    (xpc # "mupdf" /\ ContentsPages # {}) =>
        \E i \in ContentsPages :
            /\ \A j \in ContentsPages : DocPages[j].len <= DocPages[i].len
            /\ Metadata.table_of_contents = Cut(PageText(DocPages, i), MAX_TEXT_LENGTH)

\* ===================================================================
\* Abandoned worker threads and the output
\* ===================================================================
RecordsOf(d) == { i \in 1..Len(RowsOfRun) : RowsOfRun[i].filename = d }

\* C21: in HimalayaGPUExtractor_Protected a run appends at most one record
\* for a document, whatever the abandoned worker threads do and whenever they
\* end: a step that is not the main loop's never changes the output, and a
\* document that timed out keeps its placeholder as its only record.
C21_OneRecordPerDocument ==
    /\ [](variant = "Protected" =>
            /\ \A d \in Range(Directory) : Cardinality(RecordsOf(d)) <= 1
            /\ \A d \in timedOutNow :
                  \A i \in RecordsOf(d) : RowsOfRun[i].pdf_title = "CORRUPTED PDF - TIMEOUT")
    /\ [][(variant = "Protected" /\ csv' # csv) => (JoinFinished \/ JoinTimeout)]_vars

\* A document timed out, the main loop went on, and the worker it abandoned
\* has ended since, in the same run.
C21_Witness ==
    /\ variant = "Protected"
    /\ pc \in {"loop", "join", "done"}
    /\ \E d \in timedOutNow : d \notin abandoned /\ Cardinality(RecordsOf(d)) = 1
    /\ Len(RowsOfRun) = 2

\* ===================================================================
\* Abandoned worker threads and the run statistics
\* ===================================================================
\* The records of this run that are not timeout placeholders.
RealRecords == SelectSeq(RowsOfRun, LAMBDA l : l.pdf_title # "CORRUPTED PDF - TIMEOUT")

\* C22: in HimalayaGPUExtractor_Protected the statistics count only documents
\* whose real result was recorded: whenever the main loop stands between two
\* documents or has ended, BibliographicHitCount['ISBN'] is at most the
\* number of real records of this run with an ISBN.
\* (Stated between documents: the reading most favourable to the claim, the
\* counters being raised while a document is processed, before its record.)
C22_StatisticsCountRecorded ==
    (variant = "Protected" /\ pc \in {"loop", "done"}) =>
        BibliographicHitCount <=
              Len(SelectSeq(RealRecords, LAMBDA l : l.extracted_isbn # ""))

\* ===================================================================
\* The PDFPlumber thread left behind
\* ===================================================================
\* The score of the record is the one its own pdf_title and pdf_author give.
ScoredAsRecorded ==
    Metadata.extraction_quality_score = QualityScore(Metadata, AllExtractedText)

\* C23: in HimalayaGPUExtractor_Protected.ExtractPDFMetadata, once the
\* PDFPlumber step has been reported as timed out, no step other than those
\* of ExtractPDFMetadata itself changes Metadata, and the record handed to
\* AppendToCSV carries the pdf_title and pdf_author the quality score was
\* computed from.
C23_AbandonedStepSilent ==
    /\ [](variant = "Protected" /\ xpc = "done" => ScoredAsRecorded)
    /\ [][(variant = "Protected" /\ "PDFPlumber" \in Range(ErrorMessages) /\ xpc' = xpc)
              => Metadata' = Metadata]_vars

====
